---- MODULE Spec2Model ----
(***************************************************************************)
(* fluree-migrate: the migration engine of src/src/fluree.rs and           *)
(* src/src/cli.rs as a state machine.                                      *)
(*                                                                         *)
(*   SpecSchema    the schema-query loop of FlureeInstance::migrate and    *)
(*                 FlureeInstance::validate_result                         *)
(*   SpecTarget    Opt::write_or_print in remote mode, with                *)
(*                 FlureeInstance::new_target and v3_transact              *)
(*   SpecPaginate  extraction, join and emit for one class whose source    *)
(*                 may answer any page of SourcePages at every request     *)
(*   SpecExtract   the same actions for several concurrent classes with    *)
(*                 small pages                                             *)
(*   SpecSpawn     the spawn loop for more classes than the semaphore has  *)
(*                 permits; only the first classes' sources answer         *)
(*   SpecDirectory LocalDirectory::migrate: the files of an input          *)
(*                 directory transacted into the target one by one         *)
(*   SpecCanon     the two canonicalization passes of migrate over the     *)
(*                 predicate list, with Parser, Class, Property and        *)
(*                 ShaclShape                                              *)
(***************************************************************************)
EXTENDS Integers, Sequences, FiniteSets, TLC

VARIABLES
    source_instance,   \* FlureeInstance of the source: flags and api_key presence
    response_string,   \* "none" | "some": Option<Value> of the schema response
    schema_pc,         \* position of migrate in its schema-query loop
    prompted,          \* prompts made at the top of the current loop iteration
    attempts,          \* schema queries issued so far
    last_result,       \* the Result<Response, Error> validated last
    last_message,      \* the Err(..) message validate_result returned last
    opt,               \* Opt: output mode, is_create_ledger, target_auth presence
    target_instance,   \* Option<FlureeInstance> threaded through write_or_print
    target_pc,         \* position of the caller / of write_or_print's remote loop
    doc_num,           \* number of the document being written (0 = vocabulary)
    target_prompted,   \* prompts made at the top of the current remote iteration
    wire,              \* every request v3_transact has sent: path and document
    target_result,     \* Option: the Result<Response, Error> of the last submission
    dir_files,         \* LocalDirectory: the files read_dir listed, in listing order
    txn_id_hash_set,   \* file names the target ledger already holds
    dir_pc,            \* position of LocalDirectory::migrate
    dir_idx,           \* index of the file the for loop is at (0 before the loop)
    retry_count,       \* retry_count of LocalDirectory::migrate
    dir_log,           \* per file the loop has left: how it was left
    predicates,        \* json_results: the user-defined predicates of the schema
    canon_pc,          \* position of migrate in the canonicalization passes
    canon_idx,         \* items the current pass has processed
    parser,            \* Parser: classes, properties and shacl_shapes
    warnings,          \* the conflict reports set_property has returned
    query_classes,     \* the raw class names (the keys of parser.classes)
    source,            \* per class, the answers the source may give to a page query
    main_pc,           \* position of migrate after canonicalization
    permits,           \* free permits of the semaphore
    handles,           \* join handles pushed by the spawn loop, in spawn order
    joined,            \* number of handles the join loop has awaited
    task,              \* per class, the extraction task: pc, offset, results
    entity_map,        \* shared HashMap: class -> entity ids seen so far
    processing,        \* shared display list of the classes still processing
    temp_file,         \* TempFile: file_counter, current_file_size and the .tmp files
    served,            \* per class, the page responses its task has received
    files,             \* the sorted listing get_files returned
    file_idx,          \* spill files the emit loop has processed
    insert,            \* the "insert" node array of data_results_map
    result_size,       \* bytes accumulated since the last data flush
    file_num,          \* number of the next N_data.jsonld
    written,           \* documents write_or_print has written (file or print mode)
    spill_class,       \* the class the spill file was written for
    file_class,        \* the class name taken from the spill file's name
    raw_result,        \* the raw record the emit loop is transforming
    parsed_result,     \* the node built from it
    transform_pc       \* position of the record transformation

schemaVars == <<source_instance, response_string, schema_pc, prompted,
                attempts, last_result, last_message>>

targetVars == <<opt, target_instance, target_pc, doc_num, target_prompted, wire,
                target_result>>

dirVars == <<dir_files, txn_id_hash_set, dir_pc, dir_idx, retry_count, dir_log>>

canonVars == <<predicates, canon_pc, canon_idx, parser, warnings>>

extractVars == <<query_classes, source, main_pc, permits, handles, joined, task,
                 entity_map, processing, temp_file, served>>

emitVars == <<files, file_idx, insert, result_size, file_num, written>>

migrateVars == <<extractVars, emitVars>>

transformVars ==
    <<spill_class, file_class, raw_result, parsed_result, transform_pc>>

vars == <<schemaVars, targetVars, extractVars, emitVars, dirVars, canonVars,
          transformVars>>

----------------------------------------------------------------------------
(* Bounds *)

MaxAttempts == 3
MaxDocs == 3
MaxSubmits == 4
MaxRequests == 5
ExtractClasses == 2
NumClasses == 11

----------------------------------------------------------------------------
(* Program constants *)

PageSize == 5000
SpillThreshold == 12500
SemaphorePermits == 10
FlushBytes == 2500000

----------------------------------------------------------------------------
(* Responses: Result<Response, Error>.  ok = FALSE is a transport failure  *)
(* (no response, status 0); otherwise status is the HTTP status code.      *)

StatusCodes == {200, 201, 202, 204, 301, 400, 401, 403, 404, 500}

TransportError == [ok |-> FALSE, status |-> 0]

Responses == {[ok |-> TRUE, status |-> s] : s \in StatusCodes}

Results == Responses \cup {TransportError}

\* reqwest::StatusCode::is_success: 200 <= status <= 299
IsSuccess(status) == status >= 200 /\ status <= 299

\* validate_result inferring authorization from the credential on a
\* transport failure too
ValidateResult_TransportByKey(api_key, result) ==
    IF result.ok
    THEN IF result.status \in {200, 201}
         THEN [is_available |-> TRUE, is_authorized |-> TRUE, message |-> "Ok"]
         ELSE IF result.status \in {401, 403}
         THEN [is_available |-> TRUE, is_authorized |-> FALSE,
               message |-> IF api_key THEN "KeyNotAuthorized" ELSE "KeyNeeded"]
         ELSE [is_available |-> FALSE, is_authorized |-> ~api_key,
               message |-> "StatusCode"]
    ELSE [is_available |-> FALSE, is_authorized |-> ~api_key, message |-> "Ok"]

\* validate_result treating 403 like any other status
ValidateResult_Only401(api_key, result) ==
    IF result.ok
    THEN IF result.status \in {200, 201}
         THEN [is_available |-> TRUE, is_authorized |-> TRUE, message |-> "Ok"]
         ELSE IF result.status \in {401}
         THEN [is_available |-> TRUE, is_authorized |-> FALSE,
               message |-> IF api_key THEN "KeyNotAuthorized" ELSE "KeyNeeded"]
         ELSE [is_available |-> FALSE, is_authorized |-> ~api_key,
               message |-> "StatusCode"]
    ELSE [is_available |-> FALSE, is_authorized |-> TRUE, message |-> "Ok"]

(* FlureeInstance::validate_result: the new (is_available, is_authorized)  *)
(* and the returned Result<(), String>, named by which message it is.      *)
ValidateResult(api_key, result) ==
    IF result.ok
    THEN IF result.status \in {200, 201}
         THEN [is_available |-> TRUE, is_authorized |-> TRUE, message |-> "Ok"]
         ELSE IF result.status \in {401, 403}
         THEN [is_available |-> TRUE, is_authorized |-> FALSE,
               message |-> IF api_key THEN "KeyNotAuthorized" ELSE "KeyNeeded"]
         ELSE [is_available |-> FALSE, is_authorized |-> ~api_key,
               message |-> "StatusCode"]
    ELSE [is_available |-> FALSE, is_authorized |-> TRUE, message |-> "Ok"]

\* the instance after validate_result stored the two flags
Validated(instance, result) ==
    [instance EXCEPT
        !.is_available = ValidateResult(instance.api_key, result).is_available,
        !.is_authorized = ValidateResult(instance.api_key, result).is_authorized]

\* FlureeInstance::prompt_fix_url: a new url, flags untouched
PromptFixUrl(instance) == instance

\* FlureeInstance::prompt_api_key: api_key = Some(..)
PromptApiKey(instance) == [instance EXCEPT !.api_key = TRUE]

\* FlureeInstance::new_source: available, authorized, api_key = opt.source_auth
NewSource(source_auth) ==
    [is_available |-> TRUE, is_authorized |-> TRUE, api_key |-> source_auth,
     is_created |-> TRUE]

----------------------------------------------------------------------------
(* Source data.  A run stands for count records with the consecutive       *)
(* entity ids first .. first+count-1, serialized in bytes bytes.  The runs *)
(* of Runs are pairwise disjoint, so a set of runs is a set of entity ids  *)
(* and set inclusion of runs is set inclusion of ids.  A page is the       *)
(* sequence of rows of one response, written as a sequence of runs.        *)

R1 == [first |-> 1, count |-> 1, bytes |-> 40]
R2 == [first |-> 2, count |-> 1, bytes |-> 40]
RunA == [first |-> 1001, count |-> 5000, bytes |-> 1000000]
RunB == [first |-> 6001, count |-> 5000, bytes |-> 1000000]
RunC == [first |-> 11001, count |-> 3000, bytes |-> 600000]
RunD == [first |-> 14001, count |-> 2500, bytes |-> 500000]
\* one record whose serialized form alone is larger than a data document
RunF == [first |-> 3, count |-> 1, bytes |-> 3000000]

Runs == {R1, R2, RunA, RunB, RunC, RunD, RunF}

Page(rows) == [kind |-> "page", rows |-> rows]

\* the length of the longest list a source of SpecList holds: 30 full pages
MaxEntities == 150000

\* serialized size of one record of a list source
RecordBytes == 200

(* the lengths of the lists: none, one record, whole pages and a record    *)
(* more, the longest                                                       *)
ListLengths ==
    {0, 1, PageSize, PageSize + 1, 3 * PageSize, 3 * PageSize + 1, MaxEntities}

\* a response body that is not JSON
NotJson == [kind |-> "not_json", rows |-> <<>>]

\* issue_data_query returned Err: no response
QueryError == [kind |-> "error", rows |-> <<>>]

\* what the source of SpecPaginate may answer to any page request
SourcePages ==
    {Page(<<>>), Page(<<R1>>), Page(<<R2>>), Page(<<R1, R2>>),
     Page(<<RunA>>), Page(<<RunB>>), Page(<<RunC>>), Page(<<RunD>>),
     Page(<<RunF>>), NotJson, QueryError}

\* what the sources of SpecExtract and SpecSpawn may answer
SmallPages == {Page(<<>>), Page(<<R1>>), Page(<<R1, R2>>), QueryError}

RECURSIVE RecordCount(_)
\* Vec::len of a sequence of rows
RecordCount(rows) ==
    IF rows = <<>> THEN 0 ELSE Head(rows).count + RecordCount(Tail(rows))

RECURSIVE RowBytes(_)
RowBytes(rows) ==
    IF rows = <<>> THEN 0 ELSE Head(rows).bytes + RowBytes(Tail(rows))

\* the entity ids of a sequence of rows (the HashSet collected from "_id")
EntityIds(rows) == {rows[i] : i \in DOMAIN rows}

\* number of entity ids in a set of runs
IdCount(runs) ==
    LET RECURSIVE Sum(_)
        Sum(S) == IF S = {} THEN 0
                  ELSE LET r == CHOOSE x \in S : TRUE
                       IN r.count + Sum(S \ {r})
    IN Sum(runs)

----------------------------------------------------------------------------
(* TempFile (cli.rs, mod temp_files) *)

\* TempFile::new: the directory is emptied and the counter starts at 0
NewTempFile == [file_counter |-> 0, current_file_size |-> 0, dir |-> <<>>]

\* a write that advances the counter and leaves no file
TempFileWrite_NoFile(tf, collection_name, data, trigger) ==
    [tf EXCEPT !.file_counter = @ + 1]

\* a write that names the file by the counter and leaves the counter as it is
TempFileWrite_SameCounter(tf, collection_name, data, trigger) ==
    [tf EXCEPT !.current_file_size = RecordCount(data),
               !.dir = Append(@, [counter |-> tf.file_counter,
                                  class |-> collection_name,
                                  data |-> data,
                                  trigger |-> trigger])]

(* TempFile::write with create_new_file: a new file                        *)
(* "{file_counter}__{collection_name}" holding data; trigger records which *)
(* of the two call sites in the pagination loop wrote it.                  *)
TempFileWrite(tf, collection_name, data, trigger) ==
    [file_counter |-> tf.file_counter + 1,
     current_file_size |-> RecordCount(data),
     dir |-> Append(tf.dir, [counter |-> tf.file_counter,
                             class |-> collection_name,
                             data |-> data,
                             trigger |-> trigger])]

RECURSIVE Digits(_)
\* the decimal digits of n, as format!("{}", n) prints them
Digits(n) == IF n < 10 THEN <<n>> ELSE Append(Digits(n \div 10), n % 10)

(* The characters of a spill file's name that decide its place in the      *)
(* listing: the counter's digits, then '_' (written 10: it sorts after     *)
(* every digit).  Counters are distinct, so the class name never decides.  *)
NameKey(f) == Append(Digits(f.counter), 10)

\* a < b in the byte order of the names
NameLess(a, b) ==
    \E i \in 1..Len(a) :
        /\ i <= Len(b)
        /\ a[i] < b[i]
        /\ \A j \in 1..(i - 1) : a[j] = b[j]

RECURSIVE SortFiles(_)
\* files.sort() of get_files
SortFiles(S) ==
    IF S = {} THEN <<>>
    ELSE LET least == CHOOSE f \in S :
                          \A g \in S \ {f} : NameLess(NameKey(f), NameKey(g))
         IN <<least>> \o SortFiles(S \ {least})

\* TempFile::get_files: the files of the directory, sorted by path
GetFiles(tf) == SortFiles({tf.dir[i] : i \in DOMAIN tf.dir})

----------------------------------------------------------------------------
(* The schema-query loop of FlureeInstance::migrate *)

NoPrompt == [url |-> FALSE, key |-> FALSE]

\* the schema loop before migrate has started it
IdleSchema ==
    /\ source_instance = NewSource(FALSE)
    /\ response_string = "none"
    /\ schema_pc = "idle"
    /\ prompted = NoPrompt
    /\ attempts = 0
    /\ last_result = TransportError
    /\ last_message = "Ok"

\* Opt of a run that writes files: no target, so no ledger to create
FileOpt == [mode |-> "file", is_create_ledger |-> FALSE, target_auth |-> FALSE]

\* no write_or_print call has been made
IdleTarget ==
    /\ opt = FileOpt
    /\ target_instance = <<>>
    /\ target_pc = "idle"
    /\ doc_num = 0
    /\ target_prompted = NoPrompt
    /\ wire = <<>>
    /\ target_result = <<>>

\* LocalDirectory::migrate has not been called
IdleDirectory ==
    /\ dir_files = <<>>
    /\ txn_id_hash_set = {}
    /\ dir_pc = "idle"
    /\ dir_idx = 0
    /\ retry_count = 0
    /\ dir_log = <<>>

\* the predicate list has not been parsed
IdleCanon ==
    /\ predicates = <<>>
    /\ canon_pc = "idle"
    /\ canon_idx = 0
    /\ parser = [classes |-> <<>>, properties |-> <<>>, shacl_shapes |-> <<>>]
    /\ warnings = <<>>

\* no spill file is being transformed
IdleTransform ==
    /\ spill_class = <<>>
    /\ file_class = <<>>
    /\ raw_result = <<>>
    /\ parsed_result = <<>>
    /\ transform_pc = "idle"

\* the state before migrate reaches the vocabulary emission
IdleMigrate ==
    /\ query_classes = <<>>
    /\ source = <<>>
    /\ main_pc = "idle"
    /\ permits = SemaphorePermits
    /\ handles = <<>>
    /\ joined = 0
    /\ task = <<>>
    /\ entity_map = <<>>
    /\ processing = <<>>
    /\ temp_file = NewTempFile
    /\ served = <<>>
    /\ files = <<>>
    /\ file_idx = 0
    /\ insert = <<>>
    /\ result_size = 0
    /\ file_num = 1
    /\ written = <<>>

InitSchema ==
    /\ IdleTarget
    /\ IdleMigrate
    /\ IdleDirectory
    /\ IdleCanon
    /\ IdleTransform
    /\ \E source_auth \in BOOLEAN : source_instance = NewSource(source_auth)
    /\ response_string = "none"
    /\ schema_pc = "loop"
    /\ prompted = NoPrompt
    /\ attempts = 0
    /\ last_result = TransportError
    /\ last_message = "Ok"

\* the while condition
SchemaLoopCondition ==
    \/ ~source_instance.is_available
    \/ ~source_instance.is_authorized
    \/ response_string = "none"

(* Top of one iteration: the two prompts, then issue_initial_query is sent *)
SchemaIssueQuery ==
    /\ schema_pc = "loop"
    /\ SchemaLoopCondition
    /\ attempts < MaxAttempts
    /\ prompted' = [url |-> ~source_instance.is_available,
                    key |-> ~source_instance.is_authorized]
    /\ source_instance' =
         LET afterUrl == IF ~source_instance.is_available
                         THEN PromptFixUrl(source_instance)
                         ELSE source_instance
         IN IF ~afterUrl.is_authorized THEN PromptApiKey(afterUrl) ELSE afterUrl
    /\ attempts' = attempts + 1
    /\ schema_pc' = "await"
    /\ UNCHANGED <<response_string, last_result, last_message>>
    /\ UNCHANGED <<targetVars, migrateVars, dirVars, canonVars, transformVars>>

\* the loop breaking as soon as the endpoint is available
SchemaValidate_BreakWhenAvailable(result, body) ==
    /\ schema_pc = "await"
    /\ last_result' = result
    /\ last_message' = ValidateResult(source_instance.api_key, result).message
    /\ source_instance' = Validated(source_instance, result)
    /\ IF source_instance'.is_available
       THEN /\ response_string' = IF body = "json" THEN "some" ELSE "none"
            /\ schema_pc' = IF body = "json" THEN "canonicalize" ELSE "panicked"
       ELSE /\ response_string' = response_string
            /\ schema_pc' = "loop"
    /\ UNCHANGED <<prompted, attempts>>
    /\ UNCHANGED <<targetVars, migrateVars, dirVars, canonVars, transformVars>>

(* The query's result arrives: validate_result, then break into            *)
(* parse_current_predicates or continue.  body is what the response text   *)
(* parses to: "json" a value, "null" JSON null, "garbage" not JSON.        *)
SchemaValidate(result, body) ==
    /\ schema_pc = "await"
    /\ last_result' = result
    /\ last_message' = ValidateResult(source_instance.api_key, result).message
    /\ source_instance' = Validated(source_instance, result)
    /\ IF source_instance'.is_available /\ source_instance'.is_authorized
       THEN /\ response_string' = IF body = "json" THEN "some" ELSE "none"
            /\ schema_pc' = IF body = "json" THEN "canonicalize" ELSE "panicked"
       ELSE /\ response_string' = response_string
            /\ schema_pc' = "loop"
    /\ UNCHANGED <<prompted, attempts>>
    /\ UNCHANGED <<targetVars, migrateVars, dirVars, canonVars, transformVars>>

NextSchema ==
    \/ SchemaIssueQuery
    \/ \E result \in Results, body \in {"json", "null", "garbage"} :
           SchemaValidate(result, body)

SpecSchema == InitSchema /\ [][NextSchema]_vars

----------------------------------------------------------------------------
(* Opt::write_or_print in remote mode (opt.target is set) *)

\* FlureeInstance::new_target
NewTarget(o) ==
    [is_available |-> TRUE, is_authorized |-> TRUE, api_key |-> o.target_auth,
     is_created |-> ~o.is_create_ledger]

\* FlureeInstance::v3_transact: the path the request is posted to
WirePath(instance) == IF instance.is_created THEN "transact" ELSE "create"

\* v3_transact leaving is_created as it was
V3Transact_KeepCreated(instance) == instance

\* FlureeInstance::v3_transact: the instance once the request is built
V3Transact(instance) == [instance EXCEPT !.is_created = TRUE]

TargetOpts ==
    {[mode |-> "target", is_create_ledger |-> c, target_auth |-> k] :
        c \in BOOLEAN, k \in BOOLEAN}

InitTarget ==
    /\ IdleSchema
    /\ IdleMigrate
    /\ IdleDirectory
    /\ IdleCanon
    /\ IdleTransform
    /\ opt \in TargetOpts
    /\ target_instance = <<>>
    /\ target_pc = "idle"
    /\ doc_num = 0
    /\ target_prompted = NoPrompt
    /\ wire = <<>>
    /\ target_result = <<>>

(* migrate calls write_or_print(doc_num, data, target_instance): with no   *)
(* instance passed in, a new target instance is built.                     *)
TargetCall ==
    /\ target_pc = "idle"
    /\ opt.mode = "target"
    /\ doc_num < MaxDocs
    /\ target_instance' = IF target_instance = <<>>
                          THEN <<NewTarget(opt)>>
                          ELSE target_instance
    /\ target_pc' = "loop"
    /\ UNCHANGED <<opt, doc_num, target_prompted, wire, target_result>>
    /\ UNCHANGED <<schemaVars, migrateVars, dirVars, canonVars, transformVars>>

(* Top of one iteration of the remote loop.  response_string is never      *)
(* set, so the while condition is always true and the loop is left only    *)
(* by break.  The prompts, then v3_transact sends the document.            *)
TargetSubmit ==
    /\ target_pc = "loop"
    /\ Len(wire) < MaxSubmits
    /\ LET instance == target_instance[1]
           afterUrl == IF ~instance.is_available
                       THEN PromptFixUrl(instance) ELSE instance
           afterKey == IF ~afterUrl.is_authorized
                       THEN PromptApiKey(afterUrl) ELSE afterUrl
       IN /\ target_prompted' = [url |-> ~instance.is_available,
                                 key |-> ~instance.is_authorized]
          /\ wire' = Append(wire, [path |-> WirePath(afterKey), doc |-> doc_num])
          /\ target_instance' = <<V3Transact(afterKey)>>
    /\ target_pc' = "await"
    /\ UNCHANGED <<opt, doc_num, target_result>>
    /\ UNCHANGED <<schemaVars, migrateVars, dirVars, canonVars, transformVars>>

(* The submission's result arrives: validate_result; a transport failure   *)
(* continues; a response breaks out when the instance is available and     *)
(* authorized, and continues otherwise.                                    *)
TargetValidate(result) ==
    /\ target_pc = "await"
    /\ target_result' = <<result>>
    /\ target_instance' = <<Validated(target_instance[1], result)>>
    /\ IF result.ok /\ target_instance'[1].is_available
                    /\ target_instance'[1].is_authorized
       THEN /\ target_pc' = "idle"
            /\ doc_num' = doc_num + 1
       ELSE /\ target_pc' = "loop"
            /\ doc_num' = doc_num
    /\ UNCHANGED <<opt, target_prompted, wire>>
    /\ UNCHANGED <<schemaVars, migrateVars, dirVars, canonVars, transformVars>>

NextTarget ==
    \/ TargetCall
    \/ TargetSubmit
    \/ \E result \in Results : TargetValidate(result)

SpecTarget == InitTarget /\ [][NextTarget]_vars

----------------------------------------------------------------------------
(* LocalDirectory::migrate: every file of an input directory is transacted *)
(* into the target, one v3_transact per file                               *)

MaxFiles == 6
MaxDirSubmits == 7

RetryLimit == 5
EmptyFileSize == 1000
EmptyInsertLen == 2

\* a file: its name, its size in bytes, the length of its "insert" array
FileKinds ==
    {[size |-> 300, nodes |-> 0], [size |-> 600, nodes |-> 1],
     [size |-> 900, nodes |-> 2], [size |-> 5000, nodes |-> 1],
     [size |-> 5000, nodes |-> 2]}

BigFile(i) == [name |-> i, size |-> 5000, nodes |-> 2]

(* What read_dir may list: up to MaxFiles big documents, or two of any     *)
(* kind.  A name is the document's place in file-number order: 1 is        *)
(* 0_vocab.jsonld, 2 is 1_data.jsonld and so on.  read_dir returns the     *)
(* entries in an order that depends on the platform and the file system,   *)
(* and migrate does not sort them: two documents come in either order.     *)
DirLayouts ==
    {[i \in 1..n |-> BigFile(i)] : n \in 0..MaxFiles}
    \cup {[i \in 1..2 |-> [name |-> p[i], size |-> k[i].size,
                            nodes |-> k[i].nodes]] :
             k \in [1..2 -> FileKinds], p \in {<<1, 2>>, <<2, 1>>}}

\* bodies the target may answer the f:fileName query with
TxnBodies ==
    {[array |-> TRUE, names |-> S] : S \in {{}, {1}, {2}}}
    \cup {[array |-> FALSE, names |-> {}]}

InitDirectory ==
    /\ IdleSchema
    /\ IdleMigrate
    /\ IdleCanon
    /\ IdleTransform
    /\ opt \in TargetOpts
    /\ target_instance = <<>>
    /\ target_pc = "idle"
    /\ doc_num = 0
    /\ target_prompted = NoPrompt
    /\ wire = <<>>
    /\ target_result = <<>>
    /\ dir_files \in DirLayouts
    /\ txn_id_hash_set = {}
    /\ dir_pc = "start"
    /\ dir_idx = 0
    /\ retry_count = 0
    /\ dir_log = <<>>

(* Up to the for loop: new_target, the smallest file (unwrap of None when  *)
(* the directory has no file), and unless the ledger is to be created the  *)
(* query for the file names the ledger holds: a transport failure exits,   *)
(* an error status gives the empty set, any other response is parsed as    *)
(* an array of names.                                                      *)
DirStart(result, body) ==
    /\ dir_pc = "start"
    /\ target_instance' = <<NewTarget(opt)>>
    /\ IF dir_files = <<>>
       THEN dir_pc' = "panicked" /\ txn_id_hash_set' = {}
       ELSE IF opt.is_create_ledger
       THEN dir_pc' = "files" /\ txn_id_hash_set' = {}
       ELSE IF ~result.ok
       THEN dir_pc' = "exited" /\ txn_id_hash_set' = {}
       ELSE IF result.status >= 400
       THEN dir_pc' = "files" /\ txn_id_hash_set' = {}
       ELSE IF body.array
       THEN dir_pc' = "files" /\ txn_id_hash_set' = body.names
       ELSE dir_pc' = "panicked" /\ txn_id_hash_set' = {}
    /\ UNCHANGED <<opt, target_pc, doc_num, target_prompted, wire, target_result>>
    /\ UNCHANGED <<dir_files, dir_idx, retry_count, dir_log>>
    /\ UNCHANGED <<schemaVars, migrateVars, canonVars, transformVars>>

\* the "EMPTY!!" test
IsEmptyFile(file) ==
    file.size < EmptyFileSize /\ file.nodes < EmptyInsertLen

(* Head of the for loop: the next file is skipped when the ledger holds    *)
(* its name or when it is empty, otherwise its submission loop starts.     *)
DirNextFile ==
    /\ dir_pc = "files"
    /\ IF dir_idx = Len(dir_files)
       THEN /\ dir_pc' = "done"
            /\ UNCHANGED <<dir_idx, dir_log>>
       ELSE LET file == dir_files[dir_idx + 1]
            IN /\ dir_idx' = dir_idx + 1
               /\ IF file.name \in txn_id_hash_set
                  THEN dir_pc' = "files" /\ dir_log' = Append(dir_log, "transacted")
                  ELSE IF IsEmptyFile(file)
                  THEN dir_pc' = "files" /\ dir_log' = Append(dir_log, "empty")
                  ELSE dir_pc' = "loop" /\ dir_log' = dir_log
    /\ UNCHANGED <<dir_files, txn_id_hash_set, retry_count>>
    /\ UNCHANGED <<targetVars, schemaVars, migrateVars, canonVars, transformVars>>

\* the comparison letting a sixth consecutive file be abandoned
MayRetry_OneMore(count) == count <= RetryLimit

\* retry_count < 5
MayRetry(count) == count < RetryLimit

(* Top of one iteration of the submission loop.  An unavailable target     *)
(* with retries left: both flags are set, retry_count is incremented and   *)
(* the loop is left by break.  Otherwise the prompts, then v3_transact     *)
(* sends the file.                                                         *)
DirSubmit ==
    /\ dir_pc = "loop"
    /\ LET instance == target_instance[1]
           afterUrl == IF ~instance.is_available
                       THEN PromptFixUrl(instance) ELSE instance
           afterKey == IF ~afterUrl.is_authorized
                       THEN PromptApiKey(afterUrl) ELSE afterUrl
       IN IF ~instance.is_available /\ MayRetry(retry_count)
          THEN /\ target_instance' =
                     <<[instance EXCEPT !.is_available = TRUE,
                                        !.is_authorized = TRUE]>>
               /\ retry_count' = retry_count + 1
               /\ dir_pc' = "files"
               /\ dir_log' = Append(dir_log, "abandoned")
               /\ UNCHANGED <<target_prompted, wire>>
          ELSE /\ Len(wire) < MaxDirSubmits
               /\ target_prompted' = [url |-> ~instance.is_available,
                                      key |-> ~instance.is_authorized]
               /\ wire' = Append(wire, [path |-> WirePath(afterKey),
                                        doc |-> dir_files[dir_idx].name])
               /\ target_instance' = <<V3Transact(afterKey)>>
               /\ dir_pc' = "await"
               /\ UNCHANGED <<retry_count, dir_log>>
    /\ UNCHANGED <<opt, target_pc, doc_num, target_result>>
    /\ UNCHANGED <<dir_files, txn_id_hash_set, dir_idx>>
    /\ UNCHANGED <<schemaVars, migrateVars, canonVars, transformVars>>

(* The submission's result arrives: validate_result; a transport failure   *)
(* continues; an available and authorized target resets retry_count and    *)
(* breaks; anything else continues.                                        *)
DirValidate(result) ==
    /\ dir_pc = "await"
    /\ target_result' = <<result>>
    /\ target_instance' = <<Validated(target_instance[1], result)>>
    /\ IF result.ok /\ target_instance'[1].is_available
                    /\ target_instance'[1].is_authorized
       THEN /\ retry_count' = 0
            /\ dir_pc' = "files"
            /\ dir_log' = Append(dir_log, "accepted")
       ELSE /\ dir_pc' = "loop"
            /\ UNCHANGED <<retry_count, dir_log>>
    /\ UNCHANGED <<opt, target_pc, doc_num, target_prompted, wire>>
    /\ UNCHANGED <<dir_files, txn_id_hash_set, dir_idx>>
    /\ UNCHANGED <<schemaVars, migrateVars, canonVars, transformVars>>

NextDirectory ==
    \/ \E result \in Results, body \in TxnBodies : DirStart(result, body)
    \/ DirNextFile
    \/ DirSubmit
    \/ \E result \in Results : DirValidate(result)

SpecDirectory == InitDirectory /\ [][NextDirectory]_vars

----------------------------------------------------------------------------
(* Canonicalization: the predicate list becomes Parser's classes,          *)
(* properties and SHACL shapes.  A string is the sequence of its           *)
(* characters.                                                             *)

MaxPredicates == 3

Lowercase ==
    <<"a", "b", "c", "d", "e", "f", "g", "h", "i", "j", "k", "l", "m",
      "n", "o", "p", "q", "r", "s", "t", "u", "v", "w", "x", "y", "z">>

Uppercase ==
    <<"A", "B", "C", "D", "E", "F", "G", "H", "I", "J", "K", "L", "M",
      "N", "O", "P", "Q", "R", "S", "T", "U", "V", "W", "X", "Y", "Z">>

\* char::to_uppercase
ToUppercase(ch) ==
    IF \E i \in DOMAIN Lowercase : Lowercase[i] = ch
    THEN Uppercase[CHOOSE i \in DOMAIN Lowercase : Lowercase[i] = ch]
    ELSE ch

\* str::split: the parts of string between the occurrences of sep
RECURSIVE Split(_, _)
Split(string, sep) ==
    IF \E i \in DOMAIN string : string[i] = sep
    THEN LET i == CHOOSE k \in DOMAIN string :
                     /\ string[k] = sep
                     /\ \A j \in 1..(k - 1) : string[j] # sep
         IN <<SubSeq(string, 1, i - 1)>>
            \o Split(SubSeq(string, i + 1, Len(string)), sep)
    ELSE <<string>>

\* remove_namespace: the second part of "a:b", the string itself otherwise
RemoveNamespace(string) ==
    LET split == Split(string, ":")
    IN IF Len(split) >= 2 THEN split[2] ELSE string

\* capitalize: the first character in upper case
Capitalize(string) ==
    IF string = <<>> THEN <<>> ELSE <<ToUppercase(Head(string))>> \o Tail(string)

RECURSIVE CapitalizeParts(_)
CapitalizeParts(parts) ==
    IF parts = <<>> THEN <<>>
    ELSE Capitalize(Head(parts)) \o CapitalizeParts(Tail(parts))

\* case_normalize: snake_case to camelCase, the first part left as it is
CaseNormalize(string) ==
    LET split == Split(string, "_")
    IN Head(split) \o CapitalizeParts(Tail(split))

\* standardize_class_name
StandardizeClassName(string) == CaseNormalize(Capitalize(RemoveNamespace(string)))

\* standardize_property_name
StandardizePropertyName(string) == CaseNormalize(string)

\* parse_for_class_and_property_name: the two parts of "collection/property"
ParseForClassAndPropertyName(item) ==
    LET name_parts == Split(item.name, "/")
    IN [orig_class_name |-> name_parts[1], orig_property_name |-> name_parts[2]]

\* Property::normalize_type_value, an Option<String>
NormalizeTypeValue(type_value) ==
    IF type_value \in {"float", "int", "instant", "boolean", "long", "string"}
    THEN <<CASE type_value = "int" -> "xsd:integer"
             [] type_value = "instant" -> "xsd:dateTime"
             [] type_value = "float" -> "xsd:float"
             [] type_value = "boolean" -> "xsd:boolean"
             [] type_value = "long" -> "xsd:long"
             [] type_value = "string" -> "xsd:string">>
    ELSE <<>>

\* the elements of an Option, as a set
OptionSet(option) == {option[i] : i \in DOMAIN option}

\* HashMap::insert
Insert(map, key, value) == (key :> value) @@ map

\* Class::new
NewClass(class_name) ==
    [id |-> class_name, label |-> RemoveNamespace(class_name), range |-> <<>>]

\* Class::set_property_range
SetPropertyRange(class_object, property_name) ==
    [class_object EXCEPT !.range = Append(@, property_name)]

\* Property::new
NewProperty(property_name, type_value) ==
    [id |-> StandardizePropertyName(property_name),
     label |-> RemoveNamespace(StandardizePropertyName(property_name)),
     domain |-> <<>>,
     data_types |-> OptionSet(NormalizeTypeValue(type_value))]

\* the stored property returned without its datatype set being extended
UpdateTypesAndOwn_Keep(property, type_value) == property

\* Property::update_types_and_own
UpdateTypesAndOwn(property, type_value) ==
    [property EXCEPT
        !.data_types = @ \cup OptionSet(NormalizeTypeValue(type_value))]

\* Property::set_class_domain
SetClassDomain(property, class_name) ==
    [property EXCEPT !.domain = Append(@, class_name)]

\* ShaclShape::new
NewShaclShape(class_name) == [target_class |-> class_name, property |-> <<>>]

\* Parser::get_or_create_class
GetOrCreateClass(p, orig_class_name) ==
    IF orig_class_name \in DOMAIN p.classes
    THEN p.classes[orig_class_name]
    ELSE NewClass(StandardizeClassName(orig_class_name))

\* Parser::get_or_create_property
GetOrCreateProperty(p, property_name, type_value) ==
    IF property_name \in DOMAIN p.properties
    THEN UpdateTypesAndOwn(p.properties[property_name], type_value)
    ELSE NewProperty(property_name, type_value)

\* Parser::get_or_create_shacl_shape
GetOrCreateShaclShape(p, class_name) ==
    IF class_name \in DOMAIN p.shacl_shapes
    THEN p.shacl_shapes[class_name]
    ELSE NewShaclShape(class_name)

\* max_count set only for a "multi" that is present and false
MaxCount_OnlyFalse(item) == IF item.multi = "false" THEN <<1>> ELSE <<>>

\* set_property: max_count from the item's "multi"
MaxCount(item) ==
    IF item.multi = "absent" \/ item.multi = "false" THEN <<1>> ELSE <<>>

\* the constraint never given a datatype
FirstDatatype_None(property_types) == <<>>

\* set_property: the datatype taken from a set of at most one member
FirstDatatype(property_types) ==
    IF property_types = {} THEN <<>>
    ELSE <<CHOOSE data_type \in property_types : TRUE>>

\* the conflict test comparing against 2 instead of 1
HasConflict_MoreThanTwo(property_types) == Cardinality(property_types) > 2

\* set_property: property_types.len() > 1
HasConflict(property_types) == Cardinality(property_types) > 1

(* ShaclShape::set_property.  With more than one datatype the item's own   *)
(* normalized type is unwrapped (a panic when it is None) and the conflict *)
(* report is the Err value; otherwise the constraint takes the one         *)
(* datatype of the set, if any.  The constraint is pushed in either case.  *)
(* "of" names the item a constraint or a report was built from.            *)
SetProperty(shape, property_object, item) ==
    LET property_types == property_object.data_types
        own == NormalizeTypeValue(item.type)
        shacl_property ==
            [path |-> property_object.id,
             max_count |-> MaxCount(item),
             datatype |-> IF HasConflict(property_types)
                          THEN <<>> ELSE FirstDatatype(property_types),
             class |-> IF item.restrictCollection = <<>> THEN <<>>
                       ELSE <<StandardizeClassName(item.restrictCollection[1])>>,
             of |-> item._id]
    IN [panicked |-> HasConflict(property_types) /\ own = <<>>,
        shape |-> [shape EXCEPT !.property = Append(@, shacl_property)],
        result |-> IF HasConflict(property_types) /\ own # <<>>
                   THEN <<[property |-> property_object.id,
                           class |-> shape.target_class,
                           data_type |-> own[1],
                           other_data_types |-> property_types \ {own[1]},
                           of |-> item._id]>>
                   ELSE <<>>]

Person == <<"p", "e", "r", "s", "o", "n">>
PersonCapital == <<"P", "e", "r", "s", "o", "n">>
Team == <<"t", "e", "a", "m">>
Age == <<"a", "g", "e">>
Score == <<"s", "c", "o", "r", "e">>
FirstNameSnake == <<"f", "i", "r", "s", "t", "_", "n", "a", "m", "e">>
FirstNameCamel == <<"f", "i", "r", "s", "t", "N", "a", "m", "e">>

\* "collection/property"
PredicateName(collection, property) == collection \o <<"/">> \o property

\* the predicate names a ledger of the model may hold, in _id order
PredicateNames ==
    <<PredicateName(Person, Age), PredicateName(Person, FirstNameSnake),
      PredicateName(Person, FirstNameCamel), PredicateName(Person, Score),
      PredicateName(Team, Score), PredicateName(PersonCapital, Score)>>

\* two recognized type tags and one that normalize_type_value maps to None
TypeTags == {"int", "string", "tag"}

MultiFlags == {"absent", "true", "false"}

\* the predicates with _id in ids, each with its "type" and "multi"
RECURSIVE Items(_, _, _)
Items(i, ids, fields) ==
    IF i > Len(PredicateNames) THEN <<>>
    ELSE (IF i \in ids
          THEN <<[_id |-> i, name |-> PredicateNames[i],
                  type |-> fields[i].type, multi |-> fields[i].multi,
                  restrictCollection |-> <<>>]>>
          ELSE <<>>)
         \o Items(i + 1, ids, fields)

NewParser == [classes |-> <<>>, properties |-> <<>>, shacl_shapes |-> <<>>]

InitCanon ==
    /\ IdleSchema
    /\ IdleTarget
    /\ IdleMigrate
    /\ IdleDirectory
    /\ IdleTransform
    /\ \E ids \in SUBSET DOMAIN PredicateNames :
          /\ Cardinality(ids) <= MaxPredicates
          /\ \E fields \in [ids -> [type : TypeTags, multi : MultiFlags]] :
                predicates = Items(1, ids, fields)
    /\ canon_pc = "pass1"
    /\ canon_idx = 0
    /\ parser = NewParser
    /\ warnings = <<>>

(* One item of the first pass: the class and the property are created or   *)
(* fetched, the property's datatype set is extended, both are stored.      *)
CanonPass1 ==
    /\ canon_pc = "pass1"
    /\ IF canon_idx = Len(predicates)
       THEN /\ canon_pc' = "pass2"
            /\ canon_idx' = 0
            /\ parser' = parser
       ELSE LET item == predicates[canon_idx + 1]
                names == ParseForClassAndPropertyName(item)
                class_object == GetOrCreateClass(parser, names.orig_class_name)
                property_obj ==
                    GetOrCreateProperty(parser, names.orig_property_name, item.type)
            IN /\ parser' =
                    [parser EXCEPT
                        !.classes = Insert(@, names.orig_class_name, class_object),
                        !.properties =
                            Insert(@, names.orig_property_name, property_obj)]
               /\ canon_idx' = canon_idx + 1
               /\ canon_pc' = canon_pc
    /\ UNCHANGED <<predicates, warnings>>
    /\ UNCHANGED <<schemaVars, targetVars, migrateVars, dirVars, transformVars>>

(* One item of the second pass: range, domain and the shape constraint;    *)
(* a conflict report is printed as a warning; shape, class and property    *)
(* are stored.                                                             *)
CanonPass2 ==
    /\ canon_pc = "pass2"
    /\ IF canon_idx = Len(predicates)
       THEN /\ canon_pc' = "done"
            /\ UNCHANGED <<canon_idx, parser, warnings>>
       ELSE LET item == predicates[canon_idx + 1]
                names == ParseForClassAndPropertyName(item)
                class_name == StandardizeClassName(names.orig_class_name)
                property_name == StandardizePropertyName(names.orig_property_name)
                class_object ==
                    SetPropertyRange(GetOrCreateClass(parser, names.orig_class_name),
                                     property_name)
                property_object ==
                    SetClassDomain(
                        GetOrCreateProperty(parser, names.orig_property_name,
                                            item.type),
                        class_name)
                attempt_set_property ==
                    SetProperty(GetOrCreateShaclShape(parser, class_name),
                                property_object, item)
            IN IF attempt_set_property.panicked
               THEN /\ canon_pc' = "panicked"
                    /\ UNCHANGED <<canon_idx, parser, warnings>>
               ELSE /\ warnings' = warnings \o attempt_set_property.result
                    /\ parser' =
                         [parser EXCEPT
                             !.shacl_shapes =
                                 Insert(@, class_name, attempt_set_property.shape),
                             !.classes =
                                 Insert(@, names.orig_class_name, class_object),
                             !.properties =
                                 Insert(@, names.orig_property_name,
                                        property_object)]
                    /\ canon_idx' = canon_idx + 1
                    /\ canon_pc' = canon_pc
    /\ UNCHANGED predicates
    /\ UNCHANGED <<schemaVars, targetVars, migrateVars, dirVars, transformVars>>

NextCanon == CanonPass1 \/ CanonPass2

SpecCanon == InitCanon /\ [][NextCanon]_vars

----------------------------------------------------------------------------
(* Record transformation: JSON values, the instant conversion and the      *)
(* rewriting of one spilled record into a node.  A JSON number is its      *)
(* sign and decimal digits, as it stands in the spill file; a JSON string  *)
(* is a sequence of characters; an object is a map from keys to values.    *)

Number(neg, digits) == [kind |-> "number", neg |-> neg, digits |-> digits]
String(chars) == [kind |-> "string", chars |-> chars]
Object(members) == [kind |-> "object", members |-> members]
Array(items) == [kind |-> "array", items |-> items]
Null == [kind |-> "null"]

DigitChars == <<"0", "1", "2", "3", "4", "5", "6", "7", "8", "9">>

\* the characters of a sequence of digits
RECURSIVE DigitString(_)
DigitString(digits) ==
    IF digits = <<>> THEN <<>>
    ELSE <<DigitChars[Head(digits) + 1]>> \o DigitString(Tail(digits))

\* Value::to_string of a number or of null
JsonToString(value) ==
    IF value.kind = "number"
    THEN (IF value.neg THEN <<"-">> ELSE <<>>) \o DigitString(value.digits)
    ELSE <<"n", "u", "l", "l">>

\* value[key]: the member, or null when the object has none of that name
Member(value, key) ==
    IF key \in DOMAIN value.members THEN value.members[key] ELSE Null

\* quotient and remainder of a non-negative decimal number by divisor
RECURSIVE LongDivide(_, _, _, _)
LongDivide(digits, divisor, quotient, remainder) ==
    IF digits = <<>> THEN [quotient |-> quotient, remainder |-> remainder]
    ELSE LET r == remainder * 10 + Head(digits)
         IN LongDivide(Tail(digits), divisor, quotient * 10 + (r \div divisor),
                       r % divisor)

MillisPerDay == 86400000

\* div_euclid and rem_euclid of the epoch value by the milliseconds of a day
DayAndMillis(value) ==
    LET d == LongDivide(value.digits, MillisPerDay, 0, 0)
    IN IF ~value.neg THEN [day |-> d.quotient, millis |-> d.remainder]
       ELSE IF d.remainder = 0 THEN [day |-> -d.quotient, millis |-> 0]
       ELSE [day |-> -d.quotient - 1, millis |-> MillisPerDay - d.remainder]

\* the calendar date of a day count from 1970-01-01 with every fourth year leap
DateOfDay_Julian(day) ==
    LET z == day + 719470
        yoe == (4 * z + 3) \div 1461
        doy == z - (1461 * yoe) \div 4
        mp == (5 * doy + 2) \div 153
        m == IF mp < 10 THEN mp + 3 ELSE mp - 9
    IN [year |-> IF m <= 2 THEN yoe + 1 ELSE yoe,
        month |-> m,
        day |-> doy - (153 * mp + 2) \div 5 + 1]

\* the proleptic Gregorian date of a day count from 1970-01-01
DateOfDay(day) ==
    LET z == day + 719468
        era == z \div 146097
        doe == z % 146097
        yoe == (doe - doe \div 1460 + doe \div 36524 - doe \div 146096) \div 365
        doy == doe - (365 * yoe + yoe \div 4 - yoe \div 100)
        mp == (5 * doy + 2) \div 153
        m == IF mp < 10 THEN mp + 3 ELSE mp - 9
    IN [year |-> IF m <= 2 THEN yoe + era * 400 + 1 ELSE yoe + era * 400,
        month |-> m,
        day |-> doy - (153 * mp + 2) \div 5 + 1]

\* n in decimal, zero-padded to width digits
RECURSIVE Pad(_, _)
Pad(n, width) ==
    IF width = 0 THEN <<>>
    ELSE Pad(n \div 10, width - 1) \o <<DigitChars[(n % 10) + 1]>>

\* instant_to_iso_string: "YYYY-MM-DDTHH:MM:SS.mmmZ"
InstantToIsoString(epoch) ==
    LET dm == DayAndMillis(epoch)
        date == DateOfDay(dm.day)
        secs == dm.millis \div 1000
    IN Pad(date.year, 4) \o <<"-">> \o Pad(date.month, 2) \o <<"-">>
       \o Pad(date.day, 2) \o <<"T">> \o Pad(secs \div 3600, 2) \o <<":">>
       \o Pad((secs \div 60) % 60, 2) \o <<":">> \o Pad(secs % 60, 2)
       \o <<".">> \o Pad(dm.millis % 1000, 3) \o <<"Z">>

IdKey == <<"@", "i", "d">>
Born == <<"b", "o", "r", "n">>
Likes == <<"l", "i", "k", "e", "s">>
MemberName == <<"m", "e", "m", "b", "e", "r">>
Nick == <<"n", "i", "c", "k">>
Visits == <<"v", "i", "s", "i", "t", "s">>
\* a collection whose name holds two underscores in a row
OldPerson == <<"o", "l", "d", "_", "_">> \o Person
TypeKey == <<"@", "t", "y", "p", "e">>
RawIdKey == <<"_", "i", "d">>

\* the reference object without the class of its target
ReferenceObject_NoType(value, ref_type) ==
    Object(IdKey :> String(JsonToString(Member(value, RawIdKey))))

\* represent_fluree_value, the Value::Object arm
ReferenceObject(value, ref_type) ==
    Object((IdKey :> String(JsonToString(Member(value, RawIdKey))))
           @@ (IF ref_type = <<>> THEN <<>> ELSE TypeKey :> String(ref_type[1])))

\* represent_fluree_value
RECURSIVE RepresentFlureeValue(_, _)
RepresentFlureeValue(value, ref_type) ==
    CASE value.kind = "object" -> ReferenceObject(value, ref_type)
      [] value.kind = "array" ->
            Array([i \in DOMAIN value.items |->
                      RepresentFlureeValue(value.items[i], ref_type)])
      [] OTHER -> value

\* the constraints of a shape whose path is key and whose datatype is xsd:dateTime
IsDatetime(shacl_properties, key) ==
    \E i \in DOMAIN shacl_properties :
        /\ shacl_properties[i].path = key
        /\ shacl_properties[i].datatype = <<"xsd:dateTime">>

\* sh:class of the first constraint of the shape with path key that has one
RefType(shacl_properties, key) ==
    LET found == {i \in DOMAIN shacl_properties :
                     /\ shacl_properties[i].path = key
                     /\ shacl_properties[i].class # <<>>}
    IN IF found = {} THEN <<>>
       ELSE shacl_properties[CHOOSE i \in found : \A j \in found : i <= j].class

\* the keys of one record as serde_json's map iterates them: in byte order
KeyOrder ==
    <<RawIdKey, Age, Born, FirstNameCamel, FirstNameSnake, Likes, MemberName,
      Nick, Visits>>

(* The loop over the keys of one record from position i on: a key that     *)
(* names a known property is re-keyed to the property's IRI and its value  *)
(* converted; as_i64().unwrap() panics on a value that is not an integer,  *)
(* shacl_shapes.get().unwrap() on a class without a shape.                 *)
RECURSIVE TransformKeys(_, _, _, _, _)
TransformKeys(p, class_name, result, i, acc) ==
    IF i > Len(KeyOrder) THEN [panicked |-> FALSE, node |-> acc]
    ELSE LET raw_key == KeyOrder[i]
         IN IF raw_key \notin DOMAIN result.members
               \/ raw_key \notin DOMAIN p.properties
            THEN TransformKeys(p, class_name, result, i + 1, acc)
            ELSE IF class_name \notin DOMAIN p.shacl_shapes
            THEN [panicked |-> TRUE, node |-> acc]
            ELSE LET key == p.properties[raw_key].id
                     shacl_properties == p.shacl_shapes[class_name].property
                     value == result.members[raw_key]
                     is_datetime == IsDatetime(shacl_properties, key)
                 IN IF is_datetime /\ value.kind # "number"
                    THEN [panicked |-> TRUE, node |-> acc]
                    ELSE TransformKeys(p, class_name, result, i + 1,
                            Insert(acc, key,
                                RepresentFlureeValue(
                                    IF is_datetime
                                    THEN String(InstantToIsoString(value))
                                    ELSE value,
                                    RefType(shacl_properties, key))))

\* the body of "for result in results": one raw record becomes one node
TransformResult(p, orig_class_name, result) ==
    IF orig_class_name \notin DOMAIN p.classes
    THEN [panicked |-> TRUE, node |-> <<>>]
    ELSE LET class_name == p.classes[orig_class_name].id
         IN TransformKeys(p, class_name, result, 1,
                (IdKey :> String(JsonToString(Member(result, RawIdKey))))
                @@ (TypeKey :> String(class_name)))

MaxLedger == 2
MaxKeys == 2

Predicate(id, collection, property, type, multi, restrictCollection) ==
    [_id |-> id, name |-> PredicateName(collection, property), type |-> type,
     multi |-> multi, restrictCollection |-> restrictCollection]

\* the predicates a ledger of the transformation model may hold, in _id order
LedgerPredicates ==
    <<Predicate(1, Person, Age, "int", "absent", <<>>),
      Predicate(2, Person, Born, "instant", "absent", <<>>),
      Predicate(3, Person, FirstNameCamel, "string", "absent", <<>>),
      Predicate(4, Person, FirstNameSnake, "string", "absent", <<>>),
      Predicate(5, Person, Likes, "ref", "true", <<>>),
      Predicate(6, Team, MemberName, "ref", "true", <<Person>>),
      Predicate(7, Team, Born, "string", "absent", <<>>),
      Predicate(8, OldPerson, Age, "int", "absent", <<>>),
      Predicate(9, Team, Visits, "instant", "true", <<>>)>>

\* the predicates of LedgerPredicates with _id in ids
RECURSIVE Ledger(_, _)
Ledger(i, ids) ==
    IF i > Len(LedgerPredicates) THEN <<>>
    ELSE (IF i \in ids THEN <<LedgerPredicates[i]>> ELSE <<>>)
         \o Ledger(i + 1, ids)

EntityId == Number(FALSE, <<3, 5, 1, 8, 4, 3, 7, 2, 0, 8, 8, 8, 3, 2, 0>>)
OtherEntityId == Number(FALSE, <<3, 6, 9, 4, 3, 5, 9, 0, 6, 9, 3, 2, 7, 3, 7>>)
Reference(id) == Object(RawIdKey :> id)

\* 1693403567000, -1 and 951782400000 (2000-02-29T00:00:00Z)
Instant2023 == Number(FALSE, <<1, 6, 9, 3, 4, 0, 3, 5, 6, 7, 0, 0, 0>>)
InstantBefore1970 == Number(TRUE, <<1>>)
InstantLeapDay == Number(FALSE, <<9, 5, 1, 7, 8, 2, 4, 0, 0, 0, 0, 0>>)

\* the values a raw record of the model may hold under a key
RawValues ==
    <<Instant2023, InstantBefore1970, InstantLeapDay, String(<<"x">>),
      String(<<"y">>), Reference(EntityId),
      Array(<<Reference(EntityId), Reference(OtherEntityId)>>),
      Array(<<InstantLeapDay, String(<<"x">>)>>),
      Array(<<Instant2023, InstantBefore1970>>)>>

(* The values the ledger's schema lets a record hold under a key: integers *)
(* under age, integers or a string under born (an instant in one class, a  *)
(* string in the other), strings under the name keys, one reference or an  *)
(* array of references under the ref keys, an array of integers under      *)
(* visits (a multi-valued instant); nick names no predicate of             *)
(* LedgerPredicates and may hold anything.                                 *)
AllowedValues(k) ==
    CASE k = Age -> {1, 2}
      [] k = Born -> {1, 2, 3, 4}
      [] k \in {FirstNameCamel, FirstNameSnake} -> {4, 5}
      [] k \in {Likes, MemberName} -> {6, 7}
      [] k = Visits -> {9}
      [] OTHER -> DOMAIN RawValues

\* the keys a raw record may hold besides "_id": all but Nick may name a property
RawKeys ==
    {Age, Born, FirstNameCamel, FirstNameSnake, Likes, MemberName, Nick, Visits}

InitTransform ==
    /\ IdleSchema
    /\ IdleTarget
    /\ IdleMigrate
    /\ IdleDirectory
    /\ IdleTransform
    /\ \E ids \in SUBSET DOMAIN LedgerPredicates :
          /\ Cardinality(ids) <= MaxLedger
          /\ predicates = Ledger(1, ids)
    /\ canon_pc = "pass1"
    /\ canon_idx = 0
    /\ parser = NewParser
    /\ warnings = <<>>

\* the counters of the spill files whose records are transformed
FileCounters == {0, 12}

\* format!("{}__{}", self.file_counter, collection_name)
FileName(file_counter, name) ==
    DigitString(Digits(file_counter)) \o <<"_", "_">> \o name

RECURSIVE SplitStr(_)
\* str::split("__"): the pieces between the matches, found left to right
SplitStr(string) ==
    IF \E i \in 1..(Len(string) - 1) : string[i] = "_" /\ string[i + 1] = "_"
    THEN LET i == CHOOSE k \in 1..(Len(string) - 1) :
                     /\ string[k] = "_" /\ string[k + 1] = "_"
                     /\ \A j \in 1..(k - 1) :
                           ~(string[j] = "_" /\ string[j + 1] = "_")
         IN <<SubSeq(string, 1, i - 1)>>
            \o SplitStr(SubSeq(string, i + 2, Len(string)))
    ELSE <<string>>

\* the text after the last "__" of the file name
OrigClassName(file_name) ==
    LET parts == SplitStr(file_name) IN parts[Len(parts)]

(* One record of one spill file: write() named the file after the counter  *)
(* and a key of parser.classes, the emit loop takes the class name back    *)
(* from the file name; the record is parsed from the file and the node     *)
(* pushed to vec_parsed_results, or the run panics.  parsed_result is      *)
(* built afresh for every record and the parser is not changed, so every   *)
(* record meets the state the first one met.                               *)
TransformRecord ==
    /\ canon_pc = "done"
    /\ transform_pc = "idle"
    /\ \E written_for \in DOMAIN parser.classes :
       \E file_counter \in FileCounters :
       \E id \in {EntityId, OtherEntityId} :
       \E keys \in SUBSET RawKeys :
          /\ Cardinality(keys) <= MaxKeys
          /\ \E values \in [keys -> DOMAIN RawValues] :
                /\ \A k \in keys : values[k] \in AllowedValues(k)
                /\ LET result == Object((RawIdKey :> id)
                                     @@ [k \in keys |-> RawValues[values[k]]])
                       orig_class_name ==
                           OrigClassName(FileName(file_counter, written_for))
                       transformed ==
                           TransformResult(parser, orig_class_name, result)
                   IN /\ spill_class' = written_for
                      /\ file_class' = orig_class_name
                      /\ raw_result' = result
                      /\ parsed_result' = transformed.node
                      /\ transform_pc' = IF transformed.panicked
                                         THEN "panicked" ELSE "transformed"
    /\ UNCHANGED <<schemaVars, targetVars, migrateVars, dirVars, canonVars>>

NextTransform == CanonPass1 \/ CanonPass2 \/ TransformRecord

SpecTransform == InitTransform /\ [][NextTransform]_vars

----------------------------------------------------------------------------
(* The @context of the emitted documents.  An IRI given on the command     *)
(* line or derived from the source's url is written as a token.            *)

SourceTerms == "{source_instance.url}/terms/"
SourceIds == "{source_instance.url}/ids/"

\* create_context
CreateContext(o, is_vocab) ==
    LET base == IF o.base = <<>> THEN SourceIds ELSE o.base[1]
        vocab == IF o.vocab = <<>> THEN SourceTerms ELSE o.vocab[1]
    IN (IF is_vocab THEN "@base" :> vocab
        ELSE ("@base" :> base) @@ ("@vocab" :> vocab))
       @@ (IF o.shacl
           THEN ("sh" :> "http://www.w3.org/ns/shacl#")
                @@ ("xsd" :> "http://www.w3.org/2001/XMLSchema#")
           ELSE <<>>)
       @@ ("rdfs" :> "http://www.w3.org/2000/01/rdf-schema#")
       @@ ("rdf" :> "http://www.w3.org/1999/02/22-rdf-syntax-ns#")
       @@ ("f" :> "https://ns.flur.ee/ledger#")

\* Parser::new with the two contexts it builds from the options
ParserNew(o) ==
    NewParser @@ [vocab_context |-> CreateContext(o, TRUE),
                  data_context |-> CreateContext(o, FALSE)]

(* The options that decide the contexts; clap rejects --base with          *)
(* --no-base and --vocab with --no-vocab.                                  *)
ContextOpts ==
    {o \in [base : {<<>>, <<"http://example.org/ids/">>},
            vocab : {<<>>, <<"http://example.org/terms/">>},
            no_base : BOOLEAN, no_vocab : BOOLEAN, shacl : BOOLEAN] :
        /\ ~(o.no_base /\ o.base # <<>>)
        /\ ~(o.no_vocab /\ o.vocab # <<>>)}

InitContext ==
    /\ IdleSchema
    /\ IdleMigrate
    /\ IdleDirectory
    /\ IdleCanon
    /\ IdleTransform
    /\ \E o \in ContextOpts : opt = FileOpt @@ o
    /\ target_instance = <<>>
    /\ target_pc = "idle"
    /\ doc_num = 0
    /\ target_prompted = NoPrompt
    /\ wire = <<>>
    /\ target_result = <<>>

\* parse_current_predicates and Parser::new: the predicate list and the contexts
CreateParser ==
    /\ canon_pc = "idle"
    /\ \E ids \in SUBSET DOMAIN LedgerPredicates :
          /\ Cardinality(ids) <= 1
          /\ predicates' = Ledger(1, ids)
    /\ parser' = ParserNew(opt)
    /\ canon_pc' = "pass1"
    /\ UNCHANGED <<canon_idx, warnings>>
    /\ UNCHANGED <<schemaVars, targetVars, migrateVars, dirVars, transformVars>>

NextContext == CreateParser \/ CanonPass1 \/ CanonPass2

SpecContext == InitContext /\ [][NextContext]_vars

----------------------------------------------------------------------------
(* FlureeInstance::migrate from the vocabulary emission on *)

VocabName == [num |-> 0, kind |-> "vocab"]

\* format!("{}_data.jsonld", file_num)
DataName(n) == [num |-> n, kind |-> "data"]

\* Opt::write_or_print in file mode: the file is created and data written
WriteFile(docs, file_name, nodes) ==
    Append(docs, [name |-> file_name, nodes |-> nodes])

(* The class entries of get_vocab_json: one for each value of              *)
(* parser.classes, whose keys are the classes that are queried.            *)
VocabEntries(classes) ==
    [i \in DOMAIN classes |-> [class |-> classes[i], type |-> "rdfs:Class"]]

\* migrate going on to the listing without awaiting the handles
PcAfter_NoJoin(nh, nj, n) == IF nh < n THEN "acquire" ELSE "list"

\* where migrate stands once nh of n handles are pushed and nj are joined
PcAfter(nh, nj, n) ==
    IF nh < n THEN "acquire" ELSE IF nj < nh THEN "join" ELSE "list"

Classes == {query_classes[i] : i \in DOMAIN query_classes}

(* The state after canonicalization for the classes 1..n: nothing written, *)
(* no task spawned.  src is the source's answers per class.                *)
StartMigrate(n, src) ==
    /\ query_classes = [i \in 1..n |-> i]
    /\ source = src
    /\ main_pc = "vocab"
    /\ permits = SemaphorePermits
    /\ handles = <<>>
    /\ joined = 0
    /\ task = [c \in 1..n |-> [pc |-> "unspawned", offset |-> 0, results |-> <<>>]]
    /\ entity_map = <<>>
    /\ processing = <<>>
    /\ temp_file = NewTempFile
    /\ served = [c \in 1..n |-> <<>>]
    /\ files = <<>>
    /\ file_idx = 0
    /\ insert = <<>>
    /\ result_size = 0
    /\ file_num = 1
    /\ written = <<>>

(* write_or_print("0_vocab.jsonld"), then TempFile::new and the shared     *)
(* state of the extraction: the processing list holds every class.         *)
MainWriteVocab ==
    /\ main_pc = "vocab"
    /\ opt.mode = "file"
    /\ written' = WriteFile(written, VocabName, VocabEntries(query_classes))
    /\ temp_file' = NewTempFile
    /\ processing' = query_classes
    /\ main_pc' = PcAfter(0, 0, Len(query_classes))
    /\ UNCHANGED <<query_classes, source, permits, handles, joined, task,
                   entity_map, served>>
    /\ UNCHANGED <<files, file_idx, insert, result_size, file_num>>
    /\ UNCHANGED <<schemaVars, targetVars, dirVars, canonVars, transformVars>>

\* semaphore.acquire().await at the top of the spawn loop
MainAcquire ==
    /\ main_pc = "acquire"
    /\ permits > 0
    /\ permits' = permits - 1
    /\ main_pc' = "spawn"
    /\ UNCHANGED <<query_classes, source, handles, joined, task, entity_map,
                   processing, temp_file, served>>
    /\ UNCHANGED <<emitVars, schemaVars, targetVars, dirVars, canonVars, transformVars>>

(* tokio::task::spawn of the class's task, then drop(permit) and           *)
(* handles.push(handle), all in the same loop iteration.                   *)
MainSpawn ==
    /\ main_pc = "spawn"
    /\ LET class_name == query_classes[Len(handles) + 1]
       IN /\ task' = [task EXCEPT ![class_name].pc = "fetch"]
          /\ handles' = Append(handles, class_name)
    /\ permits' = permits + 1
    /\ main_pc' = PcAfter(Len(handles) + 1, 0, Len(query_classes))
    /\ UNCHANGED <<query_classes, source, joined, entity_map, processing,
                   temp_file, served>>
    /\ UNCHANGED <<emitVars, schemaVars, targetVars, dirVars, canonVars, transformVars>>

\* the page's ids compared for equality with the seen ids
AllEntitiesAlreadyExist_Equal(map, class_name, ids) ==
    IF class_name \in DOMAIN map THEN ids = map[class_name] ELSE FALSE

\* is_superset of the class's seen ids, false when the class has no entry
AllEntitiesAlreadyExist(map, class_name, ids) ==
    IF class_name \in DOMAIN map THEN ids \subseteq map[class_name] ELSE FALSE

\* the page's ids added to the seen ids of every class
MergeIds_EveryClass(map, class_name, ids) ==
    LET m == IF class_name \in DOMAIN map THEN map ELSE (class_name :> {}) @@ map
    IN [c \in DOMAIN m |-> m[c] \cup ids]

\* the seen ids of a class never extended after its first page
MergeIds_FirstPageOnly(map, class_name, ids) ==
    IF class_name \in DOMAIN map THEN map ELSE (class_name :> ids) @@ map

\* class_hash_set.extend(ids), or the insert of a first entry
MergeIds(map, class_name, ids) ==
    IF class_name \in DOMAIN map
    THEN [map EXCEPT ![class_name] = @ \cup ids]
    ELSE (class_name :> ids) @@ map

\* the loop stopping only on an empty page
ShouldStop_OnlyEmpty(rows, all_entities_already_exist) == RecordCount(rows) = 0

\* the loop stopping only on a page of ids that were all seen
ShouldStop_OnlySeen(rows, all_entities_already_exist) == all_entities_already_exist

\* the break condition of the pagination loop
ShouldStop(rows, all_entities_already_exist) ==
    RecordCount(rows) = 0 \/ all_entities_already_exist

\* the buffer replaced by every page
AppendPage_Replace(offset, results, rows) == rows

\* results = match offset { 0 => response, _ => results ++ response }
AppendPage(offset, results, rows) ==
    IF offset = 0 THEN rows ELSE results \o rows

\* the buffer spilled after every full page
NeedsSpill_EveryPage(results) == RecordCount(results) >= PageSize

\* the buffer spilled as soon as it reaches the threshold
NeedsSpill_AtThreshold(results) == RecordCount(results) >= SpillThreshold

\* results_length > 12_500
NeedsSpill(results) == RecordCount(results) > SpillThreshold

\* offset += 5000
NextOffset(offset) == offset + PageSize

(* One iteration of the pagination loop of class_name's task: the page     *)
(* query's response arrives, the seen ids are checked and merged under the *)
(* entity_map mutex, and the buffer is flushed under the temp_file mutex   *)
(* at the end of pagination or past the threshold.  A transport failure    *)
(* panics the task at response_result.unwrap().                            *)
PageArrives(class_name, response) ==
    /\ class_name \in DOMAIN task
    /\ task[class_name].pc = "fetch"
    /\ response \in source[class_name]
    /\ served' = [served EXCEPT ![class_name] =
                     Append(@, [offset |-> task[class_name].offset,
                                response |-> response])]
    /\ IF response.kind = "error"
       THEN /\ task' = [task EXCEPT ![class_name].pc = "panicked"]
            /\ UNCHANGED <<entity_map, temp_file>>
       ELSE LET rows == response.rows
                ids == EntityIds(rows)
                t == task[class_name]
                all_exist == AllEntitiesAlreadyExist(entity_map, class_name, ids)
                results == AppendPage(t.offset, t.results, rows)
            IN /\ entity_map' = MergeIds(entity_map, class_name, ids)
               /\ IF ShouldStop(rows, all_exist)
                  THEN /\ temp_file' = TempFileWrite(temp_file, class_name,
                                                     t.results, "final")
                       /\ task' = [task EXCEPT ![class_name] =
                                      [pc |-> "finish", offset |-> t.offset,
                                       results |-> <<>>]]
                  ELSE /\ temp_file' = IF NeedsSpill(results)
                                       THEN TempFileWrite(temp_file, class_name,
                                                          results, "threshold")
                                       ELSE temp_file
                       /\ task' = [task EXCEPT ![class_name] =
                                      [pc |-> "fetch",
                                       offset |-> NextOffset(t.offset),
                                       results |-> IF NeedsSpill(results)
                                                   THEN <<>> ELSE results]]
    /\ UNCHANGED <<query_classes, source, main_pc, permits, handles, joined,
                   processing>>
    /\ UNCHANGED <<emitVars, schemaVars, targetVars, dirVars, canonVars, transformVars>>

\* an iteration of the pagination loop with any answer the source may give
TaskPage(class_name, response) ==
    /\ Len(served[class_name]) < MaxRequests
    /\ PageArrives(class_name, response)

\* the page at offset of a list of n entities with the ids 1 .. n
PageAt(offset, n) ==
    IF offset >= n THEN Page(<<>>)
    ELSE LET count == IF n - offset < PageSize THEN n - offset ELSE PageSize
         IN Page(<<[first |-> offset + 1, count |-> count,
                    bytes |-> count * RecordBytes]>>)

\* every page a source holding a list of n entities can serve
ListSource(n) == {PageAt(k * PageSize, n) : k \in 0..(n \div PageSize + 1)}

(* An iteration of the pagination loop against a source that serves a      *)
(* fixed list by offset and limit: the answer is the list's page at the    *)
(* requested offset.                                                       *)
ListPage(class_name) ==
    \E n \in ListLengths :
        /\ class_name \in DOMAIN source
        /\ source[class_name] = ListSource(n)
        /\ PageArrives(class_name, PageAt(task[class_name].offset, n))

\* after the loop: the class leaves the processing list, the task ends
TaskFinish(class_name) ==
    /\ class_name \in DOMAIN task
    /\ task[class_name].pc = "finish"
    /\ processing' = SelectSeq(processing, LAMBDA x : x # class_name)
    /\ task' = [task EXCEPT ![class_name].pc = "done"]
    /\ UNCHANGED <<query_classes, source, main_pc, permits, handles, joined,
                   entity_map, temp_file, served>>
    /\ UNCHANGED <<emitVars, schemaVars, targetVars, dirVars, canonVars, transformVars>>

(* handle.await.unwrap() of the join loop: returns when the task has       *)
(* ended; a task that panicked makes unwrap panic.                         *)
MainJoin ==
    /\ main_pc = "join"
    /\ joined < Len(handles)
    /\ task[handles[joined + 1]].pc \in {"done", "panicked"}
    /\ joined' = joined + 1
    /\ main_pc' = IF task[handles[joined + 1]].pc = "panicked"
                  THEN "panicked"
                  ELSE PcAfter(Len(handles), joined + 1, Len(query_classes))
    /\ UNCHANGED <<query_classes, source, permits, handles, task, entity_map,
                   processing, temp_file, served>>
    /\ UNCHANGED <<emitVars, schemaVars, targetVars, dirVars, canonVars, transformVars>>

(* temp_file.get_files(); the progress message divides by files.len()      *)
(* and panics when there is no file.                                       *)
MainListFiles ==
    /\ main_pc = "list"
    /\ files' = GetFiles(temp_file)
    /\ main_pc' = IF Len(files') = 0 THEN "panicked" ELSE "transform"
    /\ UNCHANGED <<query_classes, source, permits, handles, joined, task,
                   entity_map, processing, temp_file, served>>
    /\ UNCHANGED <<file_idx, insert, result_size, file_num, written>>
    /\ UNCHANGED <<schemaVars, targetVars, dirVars, canonVars, transformVars>>

\* the first record of every spill file left out
Nodes_SkipFirst(file) ==
    [i \in 1..(Len(file.data) - 1) |->
        [class |-> file.class, run |-> file.data[i + 1]]]

\* the nodes the records of a spill file are transformed into
Nodes(file) ==
    [i \in DOMAIN file.data |-> [class |-> file.class, run |-> file.data[i]]]

\* every spill file counted as empty
FileBytes_Zero(file) == 0

\* file.metadata().len(): the pretty-printed array, "[]" when empty
FileBytes(file) == 2 + RowBytes(file.data)

\* file_num left as it is after a data document is written
NextFileNum_Same(n) == n

\* file_num += 1
NextFileNum(n) == n + 1

(* One iteration of the emit loop: the file's records are transformed and  *)
(* appended to the node array, a document is written when the accumulated  *)
(* size exceeds 2.5MB, and the spill file is removed.                      *)
MainTransformFile ==
    /\ main_pc = "transform"
    /\ file_idx < Len(files)
    /\ LET file == files[file_idx + 1]
           size == result_size + FileBytes(file)
           nodes == insert \o Nodes(file)
       IN /\ IF size > FlushBytes
             THEN /\ written' = WriteFile(written, DataName(file_num), nodes)
                  /\ result_size' = 0
                  /\ file_num' = NextFileNum(file_num)
                  /\ insert' = <<>>
             ELSE /\ written' = written
                  /\ result_size' = size
                  /\ file_num' = file_num
                  /\ insert' = nodes
          /\ temp_file' = [temp_file EXCEPT
                              !.dir = SelectSeq(@, LAMBDA f : f # file)]
    /\ file_idx' = file_idx + 1
    /\ main_pc' = IF file_idx + 1 = Len(files) THEN "final" ELSE "transform"
    /\ UNCHANGED <<query_classes, source, permits, handles, joined, task,
                   entity_map, processing, served, files>>
    /\ UNCHANGED <<schemaVars, targetVars, dirVars, canonVars, transformVars>>

\* remove_dir_all(temp_dir), then the final write_or_print
MainFinalFlush ==
    /\ main_pc = "final"
    /\ temp_file' = [temp_file EXCEPT !.dir = <<>>]
    /\ written' = WriteFile(written, DataName(file_num), insert)
    /\ main_pc' = "done"
    /\ UNCHANGED <<query_classes, source, permits, handles, joined, task,
                   entity_map, processing, served>>
    /\ UNCHANGED <<files, file_idx, insert, result_size, file_num>>
    /\ UNCHANGED <<schemaVars, targetVars, dirVars, canonVars, transformVars>>

NextExtract ==
    \/ MainWriteVocab
    \/ MainAcquire
    \/ MainSpawn
    \/ \E c \in Classes : \E response \in source[c] : TaskPage(c, response)
    \/ \E c \in Classes : TaskFinish(c)
    \/ MainJoin
    \/ MainListFiles
    \/ MainTransformFile
    \/ MainFinalFlush

(* One class; the source may answer any page of SourcePages, or nothing at *)
(* all, to every request.                                                  *)
InitPaginate ==
    /\ IdleSchema
    /\ IdleTarget
    /\ IdleDirectory
    /\ IdleCanon
    /\ IdleTransform
    /\ StartMigrate(1, <<SourcePages>>)

SpecPaginate == InitPaginate /\ [][NextExtract]_vars

(* One class whose source serves a fixed list of one of ListLengths        *)
(* entities by offset; pagination ends at the list's first empty page.     *)
InitList ==
    /\ IdleSchema
    /\ IdleTarget
    /\ IdleDirectory
    /\ IdleCanon
    /\ IdleTransform
    /\ \E n \in ListLengths : StartMigrate(1, <<ListSource(n)>>)

NextList ==
    \/ MainWriteVocab
    \/ MainAcquire
    \/ MainSpawn
    \/ \E c \in Classes : ListPage(c)
    \/ \E c \in Classes : TaskFinish(c)
    \/ MainJoin
    \/ MainListFiles
    \/ MainTransformFile
    \/ MainFinalFlush

SpecList == InitList /\ [][NextList]_vars

(* Up to ExtractClasses classes; each class's source answers small pages   *)
(* or never answers.                                                       *)
InitExtract ==
    /\ IdleSchema
    /\ IdleTarget
    /\ IdleDirectory
    /\ IdleCanon
    /\ IdleTransform
    /\ \E n \in 0..ExtractClasses :
         \E src \in [1..n -> {SmallPages, {}}] : StartMigrate(n, src)

SpecExtract == InitExtract /\ [][NextExtract]_vars

(* NumClasses classes, more than the semaphore has permits; the source     *)
(* answers the first class's queries and has not answered the others' yet. *)
InitSpawn ==
    /\ IdleSchema
    /\ IdleTarget
    /\ IdleDirectory
    /\ IdleCanon
    /\ IdleTransform
    /\ StartMigrate(NumClasses,
                    [c \in 1..NumClasses |-> IF c = 1 THEN SmallPages ELSE {}])

NextSpawn ==
    \/ MainWriteVocab
    \/ MainAcquire
    \/ MainSpawn
    \/ \E c \in Classes : \E response \in source[c] : TaskPage(c, response)
    \/ \E c \in Classes : TaskFinish(c)
    \/ MainJoin

SpecSpawn == InitSpawn /\ [][NextSpawn]_vars

----------------------------------------------------------------------------
(* Properties *)

\* C1: for a target configured to create its ledger exactly the first
\* submission attempt is posted to "create" and every later attempt, of any
\* document and after any outcome, to "transact"; for a target not
\* configured to create its ledger every attempt is posted to "transact".
C1_CreateOnlyFirstAttempt ==
    \A i \in DOMAIN wire :
        wire[i].path = IF opt.is_create_ledger /\ i = 1
                       THEN "create" ELSE "transact"

\* a create-ledger run whose vocabulary failed once, was re-submitted and
\* was followed by a data document
C1_Witness ==
    /\ opt.is_create_ledger
    /\ Len(wire) >= 3
    /\ wire[1].doc = 0
    /\ wire[2].doc = 0
    /\ wire[3].doc = 1

\* the extraction tasks spawned and not yet ended
InProgress == {c \in DOMAIN task : task[c].pc \in {"fetch", "finish"}}

\* C2: at every moment at most 10 per-class extraction tasks are in
\* progress (spawned and not yet finished).
C2_AtMostTenInProgress == Cardinality(InProgress) <= SemaphorePermits

\* the emit phase has started: files listed, read or transformed, or a data
\* document written
EmitStarted ==
    \/ main_pc \in {"transform", "final", "done"}
    \/ files # <<>>
    \/ file_idx > 0
    \/ insert # <<>>
    \/ \E i \in DOMAIN written : written[i].name.kind = "data"

\* C3: nothing of the emit phase happens until every class's extraction
\* task has finished; while one task is unfinished the emit phase has not
\* started, whatever the state of the other tasks.
C3_EmitOnlyAfterAllTasks ==
    EmitStarted => \A c \in Classes : task[c].pc = "done"

\* two classes, both finished, and the emit loop is at work
C3_Witness ==
    /\ Len(query_classes) = 2
    /\ main_pc = "transform"
    /\ file_idx = 1
    /\ \A c \in Classes : task[c].pc = "done"

RECURSIVE Flatten(_)
\* the concatenation of a sequence of sequences
Flatten(ss) == IF ss = <<>> THEN <<>> ELSE Head(ss) \o Flatten(Tail(ss))

\* the spill files are still all in the directory
SpillIntact == main_pc \notin {"transform", "final", "done"}

\* the spill files of a class, in counter order
ClassFiles(c) == SelectSeq(temp_file.dir, LAMBDA f : f.class = c)

\* the ids of the pages answered to the class before its i-th request
SeenBefore(c, i) ==
    UNION {EntityIds(served[c][j].response.rows) : j \in 1..(i - 1)}

\* the i-th page of the class is empty or holds only ids seen before
PageEnds(c, i) ==
    LET rows == served[c][i].response.rows
    IN rows = <<>> \/ EntityIds(rows) \subseteq SeenBefore(c, i)

\* the rows of the pages of the class that did not end its pagination
ContinuedRows(c) ==
    Flatten([i \in DOMAIN served[c] |->
                IF served[c][i].response.kind = "error" \/ PageEnds(c, i)
                THEN <<>> ELSE served[c][i].response.rows])

\* the records of the class spilled or buffered so far, in order
ClassRecords(c) ==
    Flatten([i \in DOMAIN ClassFiles(c) |-> ClassFiles(c)[i].data])
        \o task[c].results

FinalFlushes(c) == SelectSeq(ClassFiles(c), LAMBDA f : f.trigger = "final")

ThresholdFlushes(c) ==
    SelectSeq(ClassFiles(c), LAMBDA f : f.trigger = "threshold")

\* C4: a class's page requests carry the offsets 0, 5000, 10000, ... in
\* turn; a fetched page that is empty or holds only seen ids is the last one
\* requested and is followed by exactly one final flush; any other fetched
\* page has its ids merged into the seen ids and its rows appended to the
\* buffer, and the offset advances by 5000.
C4_PaginationStep ==
    \A c \in Classes :
        LET n == Len(served[c])
        IN /\ \A i \in 1..n : served[c][i].offset = (i - 1) * PageSize
           /\ \A i \in 1..n :
                 served[c][i].response.kind # "error" =>
                    IF PageEnds(c, i)
                    THEN /\ i = n
                         /\ task[c].pc \in {"finish", "done"}
                         /\ SpillIntact => Len(FinalFlushes(c)) = 1
                    ELSE /\ i = n => /\ task[c].pc = "fetch"
                                     /\ task[c].offset = n * PageSize
                         /\ Len(FinalFlushes(c)) = 0 \/ i < n
           /\ (n > 0 /\ served[c][n].response.kind # "error") =>
                 entity_map[c] = SeenBefore(c, n + 1)
           /\ SpillIntact => ClassRecords(c) = ContinuedRows(c)

\* a third page holding only ids of the two pages before it has ended the
\* pagination
C4_Witness ==
    /\ Len(served[1]) = 3
    /\ served[1][3].response = Page(<<R1>>)
    /\ served[1][2].response = Page(<<R1, R2>>)
    /\ task[1].pc = "finish"
    /\ Len(FinalFlushes(1)) = 1

\* C5: a class's task issues at most N + 1 page requests, N the number of
\* distinct entity ids in the pages it was answered, and has stopped after
\* the request N + 1; a page equal to the one before it ends the pagination.
C5_PaginationTerminates ==
    \A c \in Classes :
        LET n == Len(served[c])
            N == IdCount(SeenBefore(c, n + 1))
        IN /\ n <= N + 1
           /\ n = N + 1 => task[c].pc # "fetch"
           /\ \A i \in 2..n :
                 (/\ served[c][i].response.kind = "page"
                  /\ served[c][i].response = served[c][i - 1].response)
                 => (i = n /\ task[c].pc # "fetch")

\* two distinct ids drawn on by three requests, the last of which repeated
\* the page before it and stopped the loop
C5_Witness ==
    /\ Len(served[1]) = 3
    /\ IdCount(SeenBefore(1, 4)) = 2
    /\ served[1][3].response = served[1][2].response
    /\ task[1].pc = "finish"

\* the class was answered pages of 5,000, 5,000 and 3,000 records with
\* distinct ids and then an empty page
Scenario13000(c) ==
    /\ Len(served[c]) = 4
    /\ served[c][1].response = Page(<<RunA>>)
    /\ served[c][2].response = Page(<<RunB>>)
    /\ served[c][3].response = Page(<<RunC>>)
    /\ served[c][4].response = Page(<<>>)

\* C6 as stated: the 13,000 record scenario performs exactly 3
\* threshold-triggered spill flushes and then exactly one final flush.
C6_ThreeThresholdFlushes ==
    \A c \in Classes :
        (Scenario13000(c) /\ SpillIntact) =>
            /\ Len(ThresholdFlushes(c)) = 3
            /\ Len(FinalFlushes(c)) = 1

\* C6 amended: the 13,000 record scenario performs exactly 1
\* threshold-triggered spill flush, of all 13,000 records after the third
\* page, and then exactly one final flush, of an empty buffer.
C6_OneThresholdFlush ==
    \A c \in Classes :
        (Scenario13000(c) /\ SpillIntact) =>
            /\ Len(ClassFiles(c)) = 2
            /\ ClassFiles(c)[1].trigger = "threshold"
            /\ RecordCount(ClassFiles(c)[1].data) = 13000
            /\ ClassFiles(c)[2].trigger = "final"
            /\ ClassFiles(c)[2].data = <<>>

C6_Witness == Scenario13000(1) /\ task[1].pc = "done" /\ main_pc = "list"

\* a response has been validated and nothing was sent since
JustValidated == attempts > 0 /\ schema_pc # "await"

\* C7: validate classifies every response with a status from 200 to 299 as
\* available and authorized.
C7_Every2xxIsSuccess ==
    (JustValidated /\ last_result.ok /\ IsSuccess(last_result.status)) =>
        /\ source_instance.is_available
        /\ source_instance.is_authorized

\* C8: a transport failure is classified unavailable and authorized,
\* whatever the flags before and whether or not a credential is held, and
\* the next iteration prompts for a URL and not for a credential.
C8_TransportFailure ==
    /\ (JustValidated /\ ~last_result.ok) =>
          /\ ~source_instance.is_available
          /\ source_instance.is_authorized
          /\ schema_pc = "loop"
    /\ (schema_pc = "await" /\ attempts > 1 /\ ~last_result.ok) =>
          /\ prompted.url
          /\ ~prompted.key

\* the query was re-issued after a transport failure that hit an instance
\* holding a credential
C8_Witness ==
    /\ schema_pc = "await"
    /\ attempts > 1
    /\ ~last_result.ok
    /\ source_instance.api_key
    /\ prompted.url

\* C9: a 401 or 403 response is classified available and unauthorized,
\* with one message when a credential is held and another when none is;
\* every other status outside 200..299 is classified unavailable, and
\* authorized exactly when no credential is held.
C9_StatusClassification ==
    (JustValidated /\ last_result.ok) =>
        /\ last_result.status \in {401, 403} =>
              /\ source_instance.is_available
              /\ ~source_instance.is_authorized
              /\ last_message = IF source_instance.api_key
                                THEN "KeyNotAuthorized" ELSE "KeyNeeded"
        /\ (last_result.status \notin {401, 403}
              /\ ~IsSuccess(last_result.status)) =>
              /\ ~source_instance.is_available
              /\ source_instance.is_authorized = ~source_instance.api_key
              /\ last_message = "StatusCode"

\* a 403 answered to an instance holding a credential
C9_Witness ==
    /\ JustValidated
    /\ last_result.ok
    /\ last_result.status = 403
    /\ source_instance.api_key
    /\ last_message = "KeyNotAuthorized"

\* C10: the response goes on to canonicalization only when the latest
\* attempt was classified available and authorized; after any other
\* classification the loop goes round again, and the iteration that
\* re-issues the query has prompted for a URL exactly when the endpoint is
\* flagged unavailable and for a credential exactly when it is flagged
\* unauthorized.
C10_SchemaLoop ==
    /\ schema_pc \in {"canonicalize", "panicked"} =>
          /\ source_instance.is_available
          /\ source_instance.is_authorized
          /\ ValidateResult(source_instance.api_key, last_result).is_available
          /\ ValidateResult(source_instance.api_key, last_result).is_authorized
    /\ (JustValidated /\ ~(source_instance.is_available
                             /\ source_instance.is_authorized)) =>
          /\ schema_pc = "loop"
          /\ response_string = "none"
    /\ schema_pc = "await" =>
          /\ prompted.url = ~source_instance.is_available
          /\ prompted.key = ~source_instance.is_authorized

\* the query was re-issued after both prompts
C10_Witness ==
    /\ schema_pc = "await"
    /\ attempts > 1
    /\ prompted.url
    /\ prompted.key

----------------------------------------------------------------------------
(* C11: when a flush to a remote target fails with a connectivity failure, *)
(* the same payload is re-submitted automatically, without the URL or key  *)
(* prompt, up to 5 times before the interactive remediation is used; and   *)
(* the flush loop is left only after a submission classified successful.   *)

\* submissions of the document being flushed that have been sent so far
SubmissionsOf(d) == Cardinality({i \in 1..Len(wire) : wire[i].doc = d})

C11_AutoResubmitBeforePrompt ==
    /\ (/\ target_pc = "await"
        /\ target_result # <<>>
        /\ ~target_result[1].ok
        /\ SubmissionsOf(doc_num) <= 1 + 5)
       => /\ target_prompted = NoPrompt
          /\ Len(wire) > 1
          /\ wire[Len(wire)].doc = wire[Len(wire) - 1].doc
    /\ (target_pc = "idle" /\ doc_num > 0)
       => /\ target_result # <<>>
          /\ target_result[1].ok
          /\ target_instance[1].is_available
          /\ target_instance[1].is_authorized

----------------------------------------------------------------------------
(* C12: in a directory-input run, a target left unavailable by a           *)
(* submission while fewer than 5 consecutive files have been abandoned     *)
(* makes the loop abandon the current file without re-submitting it, set   *)
(* both flags, add 1 to the count and go on to the next file; with 5       *)
(* consecutive files abandoned it makes the loop prompt for the URL and    *)
(* re-submit the same file; every accepted submission sets the count to 0. *)

RECURSIVE AbandonedSinceAccepted(_)
AbandonedSinceAccepted(log) ==
    IF log = <<>> \/ log[Len(log)] = "accepted" THEN 0
    ELSE AbandonedSinceAccepted(SubSeq(log, 1, Len(log) - 1))
         + (IF log[Len(log)] = "abandoned" THEN 1 ELSE 0)

LeftUnavailable ==
    /\ dir_pc = "loop"
    /\ target_result # <<>>
    /\ ~target_instance[1].is_available

C12_AbandonThenPrompt ==
    [][/\ (LeftUnavailable /\ AbandonedSinceAccepted(dir_log) < 5)
          => /\ wire' = wire
             /\ target_instance'[1].is_available
             /\ target_instance'[1].is_authorized
             /\ retry_count' = retry_count + 1
             /\ dir_log' = Append(dir_log, "abandoned")
             /\ dir_pc' = "files"
       /\ (LeftUnavailable /\ AbandonedSinceAccepted(dir_log) >= 5)
          => /\ target_prompted'.url
             /\ wire' = Append(wire, [path |-> "transact",
                                      doc |-> wire[Len(wire)].doc])
             /\ retry_count' = retry_count
             /\ dir_log' = dir_log
       /\ (/\ dir_pc = "await"
           /\ target_result'[1].ok
           /\ target_instance'[1].is_available
           /\ target_instance'[1].is_authorized)
          => retry_count' = 0 /\ dir_log' = Append(dir_log, "accepted")
       /\ retry_count = AbandonedSinceAccepted(dir_log)
      ]_vars

C12_Witness ==
    /\ dir_pc = "await"
    /\ AbandonedSinceAccepted(dir_log) = 5
    /\ target_prompted.url
    /\ wire[Len(wire)].doc = wire[Len(wire) - 1].doc

----------------------------------------------------------------------------
(* C13: every run that completes extraction performs exactly one final     *)
(* flush, after the last spill file has been processed, also when the      *)
(* node array is empty because no class has an entity or because the       *)
(* schema has no class at all.                                             *)

ExtractionComplete ==
    /\ main_pc \notin {"idle", "vocab", "acquire", "spawn", "join"}
    /\ joined = Len(query_classes)
    /\ \A c \in DOMAIN task : task[c].pc = "done"

RunEnded == main_pc \in {"done", "panicked"}

C13_FinalFlushAlways ==
    (ExtractionComplete /\ RunEnded)
    => /\ file_idx = Len(files)
       /\ written # <<>>
       /\ written[Len(written)] = [name |-> DataName(file_num), nodes |-> insert]
       /\ Cardinality({i \in DOMAIN written :
                          written[i].name = DataName(file_num)}) = 1

----------------------------------------------------------------------------
(* C14: in file mode the vocabulary is written first, as 0_vocab.jsonld,   *)
(* before any data page is requested; the data documents follow as         *)
(* N_data.jsonld with N = 1, 2, 3, ... without gap or repetition, and the  *)
(* final flush uses the next unused number.                                *)

C14_FileNumbering ==
    /\ \A i \in DOMAIN written :
          written[i].name = IF i = 1 THEN VocabName ELSE DataName(i - 1)
    /\ (\E c \in DOMAIN task : task[c].pc # "unspawned" \/ served[c] # <<>>)
       => written # <<>>
    /\ main_pc \in {"transform", "final"} => file_num = Len(written)
    /\ main_pc = "done" => file_num = Len(written) - 1

\* two threshold documents and the final one, after the vocabulary
C14_Witness ==
    /\ main_pc = "done"
    /\ Len(written) = 4
    /\ written[4].name = DataName(3)

----------------------------------------------------------------------------
(* Canonicalization: what the claims speak of, read off the predicate list *)

Range(seq) == {seq[i] : i \in DOMAIN seq}

\* the raw class names and the raw property names of the predicate list
RawClassNames ==
    {ParseForClassAndPropertyName(predicates[i]).orig_class_name :
        i \in DOMAIN predicates}

RawPropertyNames ==
    {ParseForClassAndPropertyName(predicates[i]).orig_property_name :
        i \in DOMAIN predicates}

\* the predicates of a raw property name, and those of a raw class name
PropertyItems(raw) ==
    {item \in Range(predicates) :
        ParseForClassAndPropertyName(item).orig_property_name = raw}

ClassItems(raw) ==
    {item \in Range(predicates) :
        ParseForClassAndPropertyName(item).orig_class_name = raw}

\* the normalized datatypes the predicates of a raw property name declare
DeclaredTypes(raw) ==
    UNION {OptionSet(NormalizeTypeValue(item.type)) : item \in PropertyItems(raw)}

\* the shape constraints and the conflict reports built from a predicate
ConstraintsOf(item) ==
    {sp \in UNION {Range(parser.shacl_shapes[k].property) :
                      k \in DOMAIN parser.shacl_shapes} : sp.of = item._id}

ReportsOf(item) == {k \in DOMAIN warnings : warnings[k].of = item._id}

(* C15: after both passes every raw class name of the predicate list has   *)
(* exactly one class entry, and the entry's range holds exactly one entry  *)
(* per distinct property referencing the class: no property IRI is in the  *)
(* range twice.                                                            *)
C15_OneRangeEntryPerProperty ==
    canon_pc = "done"
    => /\ DOMAIN parser.classes = RawClassNames
       /\ \A raw \in RawClassNames :
             LET range == parser.classes[raw].range
             IN /\ parser.classes[raw].id = StandardizeClassName(raw)
                /\ Len(range) = Cardinality(ClassItems(raw))
                /\ \A i, j \in DOMAIN range : range[i] = range[j] => i = j

C17_ConflictOmitsDatatype ==
    canon_pc = "done"
    => \A raw \in RawPropertyNames :
          Cardinality(DeclaredTypes(raw)) >= 2
          => \A item \in PropertyItems(raw) :
                /\ ConstraintsOf(item) # {}
                /\ \A sp \in ConstraintsOf(item) : sp.datatype = <<>>
                /\ Cardinality(ReportsOf(item)) = 1
                /\ \A k \in ReportsOf(item) :
                      /\ warnings[k].property = parser.properties[raw].id
                      /\ warnings[k].class =
                            StandardizeClassName(
                                ParseForClassAndPropertyName(item).orig_class_name)

\* two classes using score with different datatypes, one report each
C17_Witness ==
    /\ canon_pc = "done"
    /\ Cardinality(DeclaredTypes(Score)) = 2
    /\ Cardinality(PropertyItems(Score)) = 2
    /\ Len(warnings) = 2
    /\ warnings[1].class # warnings[2].class

(* C18: a datatype inconsistency never aborts canonicalization: when some  *)
(* property name has two or more distinct normalized datatypes, applying   *)
(* each of its predicates, whatever the predicate's own type tag, returns  *)
(* a conflict report and the second pass runs to completion.               *)
C18_ConflictNeverAborts ==
    /\ canon_pc # "panicked"
    /\ canon_pc = "pass2"
       => \A i \in 1..canon_idx :
             LET item == predicates[i]
                 raw == ParseForClassAndPropertyName(item).orig_property_name
             IN Cardinality(DeclaredTypes(raw)) >= 2
                => Cardinality(ReportsOf(item)) = 1

(* C19: a predicate whose type tag is tag, or any tag outside float, int,  *)
(* instant, boolean, long and string, contributes no datatype: it does not *)
(* extend the property's datatype set and the constraint built from it     *)
(* carries no sh:datatype, whatever other predicates share the property    *)
(* name.                                                                   *)
Recognized == {"float", "int", "instant", "boolean", "long", "string"}

C19_TagContributesNoDatatype ==
    canon_pc \in {"pass2", "done"}
    => \A item \in Range(predicates) :
          item.type \notin Recognized
          => LET raw == ParseForClassAndPropertyName(item).orig_property_name
             IN /\ parser.properties[raw].data_types =
                      UNION {OptionSet(NormalizeTypeValue(other.type)) :
                                other \in PropertyItems(raw) \ {item}}
                /\ \A sp \in ConstraintsOf(item) : sp.datatype = <<>>

(* C20 as stated: a constraint is left without sh:maxCount when the        *)
(* predicate's multi flag is absent or true, and has sh:maxCount = 1 only  *)
(* when the flag is present and false.                                     *)
C20_CappedOnlyWhenFalse ==
    \A item \in Range(predicates) :
       \A sp \in ConstraintsOf(item) :
          /\ item.multi \in {"absent", "true"} => sp.max_count = <<>>
          /\ sp.max_count = <<1>> => item.multi = "false"

(* C20 as amended: a constraint has sh:maxCount = 1 when the predicate's   *)
(* multi flag is absent or false, and is left without sh:maxCount only     *)
(* when the flag is present and true.                                      *)
C20_UncappedOnlyWhenTrue ==
    \A item \in Range(predicates) :
       \A sp \in ConstraintsOf(item) :
          /\ item.multi \in {"absent", "false"} => sp.max_count = <<1>>
          /\ sp.max_count = <<>> => item.multi = "true"

\* three constraints, one for each value of the flag
C20_Witness ==
    /\ canon_pc = "done"
    /\ \A flag \in MultiFlags :
          \E item \in Range(predicates) :
             item.multi = flag /\ ConstraintsOf(item) # {}

----------------------------------------------------------------------------
\* the predicates person/score of type int and team/score of type string
ScoreScenario ==
    /\ Len(predicates) = 2
    /\ predicates[1].name = PredicateName(Person, Score)
    /\ predicates[1].type = "int"
    /\ predicates[2].name = PredicateName(Team, Score)
    /\ predicates[2].type = "string"

\* what the claim says of the scenario apart from the class a report names
ScoreConflict ==
    /\ parser.properties[Score].data_types = {"xsd:integer", "xsd:string"}
    /\ \A class_name \in {PersonCapital, StandardizeClassName(Team)} :
          /\ Len(parser.shacl_shapes[class_name].property) = 1
          /\ parser.shacl_shapes[class_name].property[1].path = Score
          /\ parser.shacl_shapes[class_name].property[1].datatype = <<>>
    /\ Len(warnings) = 2
    /\ Cardinality(ReportsOf(predicates[1])) = 1
    /\ Cardinality(ReportsOf(predicates[2])) = 1

(* C21 as stated: for person/score of type int and team/score of type      *)
(* string, property score ends with the datatype set {xsd:integer,         *)
(* xsd:string}, the score constraint of both classes has no sh:datatype    *)
(* and each class yields one conflict report, which names the other class. *)
C21_ReportNamesOtherClass ==
    (canon_pc = "done" /\ ScoreScenario)
    => /\ ScoreConflict
       /\ \A k \in ReportsOf(predicates[1]) :
             warnings[k].class = StandardizeClassName(Team)
       /\ \A k \in ReportsOf(predicates[2]) : warnings[k].class = PersonCapital

(* C21 as amended: the same, but each class's report names that class      *)
(* itself, the property, the datatype of the class's own predicate and     *)
(* the other datatype.                                                     *)
C21_ReportNamesOwnClass ==
    (canon_pc = "done" /\ ScoreScenario)
    => /\ ScoreConflict
       /\ \A k \in ReportsOf(predicates[1]) :
             /\ warnings[k].property = Score
             /\ warnings[k].class = PersonCapital
             /\ warnings[k].data_type = "xsd:integer"
             /\ warnings[k].other_data_types = {"xsd:string"}
       /\ \A k \in ReportsOf(predicates[2]) :
             /\ warnings[k].property = Score
             /\ warnings[k].class = StandardizeClassName(Team)
             /\ warnings[k].data_type = "xsd:string"
             /\ warnings[k].other_data_types = {"xsd:integer"}

C21_Witness ==
    /\ canon_pc = "done"
    /\ ScoreScenario
    /\ Len(warnings) = 2

----------------------------------------------------------------------------
\* the raw keys of the record, "_id" apart, that name a known property
KnownKeys == {k \in DOMAIN raw_result.members : k \in DOMAIN parser.properties}

\* the keys of the node other than @id and @type
PropertyKeys == DOMAIN parsed_result \ {IdKey, TypeKey}

(* C22: the node of a record of class C has @id = decimal string of the    *)
(* record's _id, @type = canonical IRI of C, exactly one further key for   *)
(* each raw key naming a known property, which is that property's IRI,     *)
(* and no key for any other raw key.                                       *)
C22_NodeKeys ==
    transform_pc = "transformed"
    => /\ parsed_result[IdKey] =
            String(DigitString(raw_result.members[RawIdKey].digits))
       /\ parsed_result[TypeKey] = String(StandardizeClassName(file_class))
       /\ PropertyKeys = {StandardizePropertyName(k) : k \in KnownKeys}
       /\ Cardinality(PropertyKeys) = Cardinality(KnownKeys)

\* the position of a raw key in the order the record's keys are visited
KeyPosition(k) == CHOOSE i \in DOMAIN KeyOrder : KeyOrder[i] = k

\* the raw key whose value the node holds under key: the last one visited
SourceKey(key) ==
    CHOOSE k \in KnownKeys :
        /\ StandardizePropertyName(k) = key
        /\ \A other \in KnownKeys :
              StandardizePropertyName(other) = key
              => KeyPosition(other) <= KeyPosition(k)

\* the constraints of the record's class shape with path key
ConstraintsAt(key) ==
    LET property == parser.shacl_shapes[StandardizeClassName(file_class)].property
    IN {c \in Range(property) : c.path = key}

CarriesClass(key) == \E c \in ConstraintsAt(key) : c.class # <<>>
CarriesDateTime(key) == \E c \in ConstraintsAt(key) : c.datatype = <<"xsd:dateTime">>

\* every reference in value rewritten to an object built by rewrite
RECURSIVE Rewritten(_, _)
Rewritten(value, extra) ==
    IF value.kind = "object"
    THEN Object((IdKey :> String(DigitString(value.members[RawIdKey].digits)))
                @@ extra)
    ELSE IF value.kind = "array"
    THEN Array([i \in DOMAIN value.items |-> Rewritten(value.items[i], extra)])
    ELSE value

\* a reference, or an array holding references only
RECURSIVE IsReferenceValue(_)
IsReferenceValue(value) ==
    \/ value.kind = "object"
    \/ /\ value.kind = "array"
       /\ \A i \in DOMAIN value.items : IsReferenceValue(value.items[i])

\* no reference at any depth
RECURSIVE IsPlainValue(_)
IsPlainValue(value) ==
    /\ value.kind # "object"
    /\ value.kind = "array"
       => \A i \in DOMAIN value.items : IsPlainValue(value.items[i])

(* C23 as stated: under a property whose constraint carries sh:class a     *)
(* reference becomes exactly {"@id": id}, arrays element by element;       *)
(* under a property with neither sh:class nor xsd:dateTime the value is    *)
(* passed through unchanged.                                               *)
C23_ReferenceIsIdOnly ==
    transform_pc = "transformed"
    => \A key \in PropertyKeys :
          LET value == raw_result.members[SourceKey(key)]
          IN /\ (CarriesClass(key) /\ ~CarriesDateTime(key)
                    /\ IsReferenceValue(value))
                => parsed_result[key] = Rewritten(value, <<>>)
             /\ (~CarriesClass(key) /\ ~CarriesDateTime(key))
                => parsed_result[key] = value

(* C23 as amended: under sh:class (and not xsd:dateTime) a reference       *)
(* becomes {"@id": id, "@type": the sh:class IRI}; under neither sh:class  *)
(* nor xsd:dateTime a reference becomes exactly {"@id": id}; in both cases *)
(* every other value is unchanged, arrays element by element.              *)
C23_ReferenceCarriesType ==
    transform_pc = "transformed"
    => \A key \in PropertyKeys :
          LET value == raw_result.members[SourceKey(key)]
          IN /\ (CarriesClass(key) /\ ~CarriesDateTime(key))
                => \E c \in ConstraintsAt(key) :
                      /\ c.class # <<>>
                      /\ parsed_result[key] =
                            Rewritten(value, TypeKey :> String(c.class[1]))
             /\ (~CarriesClass(key) /\ ~CarriesDateTime(key))
                => /\ parsed_result[key] = Rewritten(value, <<>>)
                   /\ IsPlainValue(value) => parsed_result[key] = value

C23_Witness ==
    /\ transform_pc = "transformed"
    /\ MemberName \in PropertyKeys
    /\ CarriesClass(MemberName)
    /\ raw_result.members[MemberName].kind = "array"
    /\ Likes \in PropertyKeys
    /\ ~CarriesClass(Likes)
    /\ raw_result.members[Likes].kind = "object"

\* the RFC3339 strings of the instants of the model, from the calendar
Iso2023 ==
    <<"2", "0", "2", "3", "-", "0", "8", "-", "3", "0", "T", "1", "3", ":",
      "5", "2", ":", "4", "7", ".", "0", "0", "0", "Z">>
IsoBefore1970 ==
    <<"1", "9", "6", "9", "-", "1", "2", "-", "3", "1", "T", "2", "3", ":",
      "5", "9", ":", "5", "9", ".", "9", "9", "9", "Z">>
IsoLeapDay ==
    <<"2", "0", "0", "0", "-", "0", "2", "-", "2", "9", "T", "0", "0", ":",
      "0", "0", ":", "0", "0", ".", "0", "0", "0", "Z">>

ExpectedIso(value) ==
    CASE value = Instant2023 -> Iso2023
      [] value = InstantBefore1970 -> IsoBefore1970
      [] value = InstantLeapDay -> IsoLeapDay

(* C28: an epoch-millisecond integer under a property whose shape          *)
(* datatype is xsd:dateTime becomes the RFC3339 UTC string, millisecond    *)
(* precision, of that instant; 1693403567000 becomes                       *)
(* "2023-08-30T13:52:47.000Z".                                             *)
C28_InstantToRfc3339 ==
    transform_pc = "transformed"
    => \A key \in PropertyKeys :
          LET value == raw_result.members[SourceKey(key)]
          IN (CarriesDateTime(key) /\ value.kind = "number")
             => parsed_result[key] = String(ExpectedIso(value))

C28_Witness ==
    /\ transform_pc = "transformed"
    /\ Born \in PropertyKeys
    /\ CarriesDateTime(Born)
    /\ raw_result.members[Born] = Instant2023
    /\ parsed_result[Born] = String(Iso2023)

----------------------------------------------------------------------------
(* C24: the sorted listing handed to the transform phase is in flush       *)
(* order: of any two spill files the one written by the earlier flush      *)
(* (the smaller counter) comes first, for any number of flushes.           *)
C24_ListingInFlushOrder ==
    \A i, j \in DOMAIN files :
        i < j => files[i].counter < files[j].counter

----------------------------------------------------------------------------
\* the classes whose first data page came back empty
EmptyClasses ==
    {c \in DOMAIN served :
        served[c] # <<>> /\ served[c][1].response = Page(<<>>)}

\* the spill files written so far: the listing once taken, the directory before
SpillFiles == IF files # <<>> THEN files ELSE temp_file.dir

(* C25: a class whose first data page is empty has its class entry in the  *)
(* vocabulary document, has exactly one spill file, which holds an empty   *)
(* record array, and has no node in any data document.                     *)
C25_EmptyClass ==
    \A c \in EmptyClasses :
        /\ \E i \in DOMAIN written :
              /\ written[i].name = VocabName
              /\ \E k \in DOMAIN written[i].nodes : written[i].nodes[k].class = c
        /\ Cardinality({i \in DOMAIN SpillFiles : SpillFiles[i].class = c}) = 1
        /\ \A i \in DOMAIN SpillFiles :
              SpillFiles[i].class = c => SpillFiles[i].data = <<>>
        /\ \A k \in DOMAIN insert : insert[k].class # c
        /\ \A i \in DOMAIN written :
              written[i].name.kind = "data"
              => \A k \in DOMAIN written[i].nodes : written[i].nodes[k].class # c

C25_Witness ==
    /\ main_pc = "done"
    /\ EmptyClasses # {}
    /\ \E i \in DOMAIN written :
          written[i].name.kind = "data" /\ written[i].nodes # <<>>

----------------------------------------------------------------------------
(* C26: a transport failure of a data-page query is recovered by retry or  *)
(* prompt and does not terminate the run: the task that met it has not     *)
(* panicked, nor has migrate at the join.                                  *)
C26_TransportFailureRecovered ==
    \A c \in DOMAIN served :
        (\E i \in DOMAIN served[c] : served[c][i].response = QueryError)
        => task[c].pc # "panicked" /\ main_pc # "panicked"

----------------------------------------------------------------------------
(* C27: with the no-base option set no emitted @context, vocabulary or     *)
(* data, holds an @base entry, and with the no-vocab option set none       *)
(* holds an @vocab entry.                                                  *)
C27_NoBaseNoVocab ==
    canon_pc # "idle"
    => /\ opt.no_base
          => /\ "@base" \notin DOMAIN parser.vocab_context
             /\ "@base" \notin DOMAIN parser.data_context
       /\ opt.no_vocab
          => /\ "@vocab" \notin DOMAIN parser.vocab_context
             /\ "@vocab" \notin DOMAIN parser.data_context

----------------------------------------------------------------------------
\* class c's loop appended a page in this step and goes on to the next request
PageAppended(c) ==
    /\ task[c].pc = "fetch"
    /\ task'[c].pc = "fetch"
    /\ task'[c].offset = task[c].offset + PageSize

\* the buffer of class c with the page of this step appended
BufferWithPage(c) ==
    LET rows == served'[c][Len(served'[c])].response.rows
    IN IF task[c].offset = 0 THEN rows ELSE task[c].results \o rows

(* C29: whenever a class's loop is about to issue a page request its       *)
(* buffer holds at most 12,500 records; after each appended page the       *)
(* buffer is written to a new spill file and emptied if and only if it     *)
(* holds more than 12,500 records.                                         *)
C29_BufferBound ==
    [][\A c \in DOMAIN task :
          /\ task'[c].pc = "fetch"
             => RecordCount(task'[c].results) <= SpillThreshold
          /\ PageAppended(c)
             => IF RecordCount(BufferWithPage(c)) > SpillThreshold
                THEN /\ Len(temp_file'.dir) = Len(temp_file.dir) + 1
                     /\ temp_file'.dir[Len(temp_file'.dir)].class = c
                     /\ temp_file'.dir[Len(temp_file'.dir)].data = BufferWithPage(c)
                     /\ task'[c].results = <<>>
                ELSE /\ temp_file' = temp_file
                     /\ task'[c].results = BufferWithPage(c)]_vars

C29_Witness ==
    /\ \E i \in DOMAIN temp_file.dir :
          /\ temp_file.dir[i].trigger = "threshold"
          /\ RecordCount(temp_file.dir[i].data) > SpillThreshold
    /\ \E c \in DOMAIN task :
          /\ task[c].pc = "fetch"
          /\ task[c].results # <<>>

----------------------------------------------------------------------------
(* C30: under any interleaving of the class tasks every spill flush gets   *)
(* a counter value of its own, the counter grows by exactly 1 per flush    *)
(* in the order the flushes take the writer mutex, and no flush writes     *)
(* into the file of another flush (no two flushes write the same name).    *)
C30_CounterPerFlush ==
    [][/\ \A i, j \in DOMAIN temp_file'.dir :
             i # j
             => /\ temp_file'.dir[i].counter # temp_file'.dir[j].counter
                /\ <<temp_file'.dir[i].counter, temp_file'.dir[i].class>>
                   # <<temp_file'.dir[j].counter, temp_file'.dir[j].class>>
       /\ Len(temp_file'.dir) = Len(temp_file.dir) + 1
          => /\ temp_file'.dir[Len(temp_file'.dir)].counter = temp_file.file_counter
             /\ temp_file'.file_counter = temp_file.file_counter + 1
       /\ Len(temp_file'.dir) <= Len(temp_file.dir)
          => temp_file'.file_counter = temp_file.file_counter]_vars

C30_Witness ==
    /\ Len(temp_file.dir) >= 2
    /\ temp_file.dir[1].class = 2
    /\ temp_file.dir[2].class = 1
    /\ temp_file.dir[2].counter = 1

----------------------------------------------------------------------------
\* the emit loop finished one spill file in this step
FileTransformed == main_pc = "transform" /\ file_idx' = file_idx + 1

(* C31: after each transformed spill file a non-final flush happens if and *)
(* only if the size accumulated since the last flush exceeds 2,500,000     *)
(* bytes; the flush writes the whole node array, this file's nodes         *)
(* included, resets the size to 0, empties the node array and advances the *)
(* document number by exactly 1.                                           *)
C31_FlushOverThreshold ==
    [][FileTransformed
       => LET file == files[file_idx + 1]
              size == result_size + 2 + RowBytes(file.data)
              nodes == insert \o [i \in DOMAIN file.data |->
                                     [class |-> file.class, run |-> file.data[i]]]
          IN IF size > FlushBytes
             THEN /\ Len(written') = Len(written) + 1
                  /\ written'[Len(written')] =
                        [name |-> [num |-> file_num, kind |-> "data"],
                         nodes |-> nodes]
                  /\ result_size' = 0
                  /\ insert' = <<>>
                  /\ file_num' = file_num + 1
             ELSE /\ written' = written
                  /\ result_size' = size
                  /\ insert' = nodes
                  /\ file_num' = file_num]_vars

C31_Witness ==
    /\ main_pc = "transform"
    /\ file_idx = 1
    /\ file_num = 2
    /\ result_size = 0
    /\ insert = <<>>

----------------------------------------------------------------------------
\* class c received a response in this step
Answered(c) == Len(served'[c]) = Len(served[c]) + 1

(* C32: a data-page response that is not valid JSON is handled as an empty *)
(* page: the class's pagination stops, the records buffered so far are     *)
(* flushed to a spill file, no further offset of the class is requested,   *)
(* and neither the task nor the run ends in a panic.                       *)
C32_NotJsonIsEmptyPage ==
    [][\A c \in DOMAIN served :
          /\ (Answered(c) /\ served'[c][Len(served'[c])].response = NotJson)
             => /\ task'[c].pc = "finish"
                /\ Len(temp_file'.dir) = Len(temp_file.dir) + 1
                /\ temp_file'.dir[Len(temp_file'.dir)].class = c
                /\ temp_file'.dir[Len(temp_file'.dir)].data = task[c].results
          /\ \A i \in DOMAIN served'[c] :
                served'[c][i].response = NotJson
                => /\ i = Len(served'[c])
                   /\ task'[c].pc \in {"finish", "done"}
                   /\ main_pc' # "panicked"]_vars

C32_Witness ==
    /\ main_pc = "done"
    /\ Len(served[1]) >= 2
    /\ served[1][Len(served[1])].response = NotJson
    /\ \E i \in DOMAIN written :
          written[i].name.kind = "data" /\ written[i].nodes # <<>>

----------------------------------------------------------------------------
\* the for loop has just skipped file dir_idx with the "EMPTY!!" message
SkippedAsEmpty ==
    /\ dir_pc = "files"
    /\ dir_idx >= 1
    /\ dir_log # <<>>
    /\ dir_log[Len(dir_log)] = "empty"

(* C33: in a directory-input run a file is skipped as empty only if its    *)
(* insert array holds no element, so that every file with at least one     *)
(* node which the target does not report as transacted is submitted.       *)
C33_SkippedOnlyIfNoNodes ==
    SkippedAsEmpty => dir_files[dir_idx].nodes = 0

----------------------------------------------------------------------------
(* C38: in a directory-input run the vocabulary file is the first file     *)
(* submitted to the target, so that with create-ledger set it is the one   *)
(* posted to "create", and the files are submitted in increasing           *)
(* file-number order.                                                      *)
C38_VocabFirstThenInOrder ==
    /\ (\E i \in DOMAIN wire : wire[i].doc = 1) =>
          /\ wire[1].doc = 1
          /\ \A i \in DOMAIN wire : wire[i].path = "create" => wire[i].doc = 1
    /\ \A i, j \in DOMAIN wire : i < j => wire[i].doc <= wire[j].doc

----------------------------------------------------------------------------
(* C34: against a source that serves a fixed list of n entities with the   *)
(* ids 1 .. n by offset and limit, the class's spill files taken together  *)
(* hold each of the n entities exactly once when its task has ended and    *)
(* before the transformer removes them, for every n including 0 and whole  *)
(* multiples of the page size.                                             *)

RECURSIVE SpilledRows(_, _)
\* the rows of class_name's spill files, in the order they were written
SpilledRows(dir, class_name) ==
    IF dir = <<>> THEN <<>>
    ELSE (IF Head(dir).class = class_name THEN Head(dir).data ELSE <<>>)
         \o SpilledRows(Tail(dir), class_name)

\* rows hold every id of 1 .. n, and none twice
HoldsEachOnce(rows, n) ==
    /\ RecordCount(rows) = n
    /\ \A i \in DOMAIN rows :
          /\ rows[i].first >= 1
          /\ rows[i].first + rows[i].count - 1 <= n
    /\ \A i, j \in DOMAIN rows :
          i < j => \/ rows[i].first + rows[i].count <= rows[j].first
                   \/ rows[j].first + rows[j].count <= rows[i].first

C34_ListSpilledOnce ==
    \A c \in DOMAIN task : \A n \in ListLengths :
        (source[c] = ListSource(n) /\ task[c].pc = "done" /\ file_idx = 0)
            => HoldsEachOnce(SpilledRows(temp_file.dir, c), n)

\* a list of three whole pages has been spilled: one file past the
\* threshold, one empty file at the end
C34_Witness ==
    /\ 1 \in DOMAIN task
    /\ source[1] = ListSource(3 * PageSize)
    /\ task[1].pc = "done"
    /\ file_idx = 0
    /\ Len(temp_file.dir) = 2
    /\ RecordCount(SpilledRows(temp_file.dir, 1)) = 3 * PageSize

----------------------------------------------------------------------------
(* C35: for any source behaviour, no entity id appears more than once      *)
(* across the spill files of one class.                                    *)
C35_NoIdSpilledTwice ==
    file_idx = 0 =>
        \A c \in DOMAIN task :
            LET rows == SpilledRows(temp_file.dir, c)
            IN \A i, j \in DOMAIN rows : i < j => rows[i] # rows[j]

RECURSIVE ServedRows(_, _)
\* the rows of the first k answers of a request history, in request order
ServedRows(history, k) ==
    IF k = 0 THEN <<>>
    ELSE ServedRows(history, k - 1) \o history[k].response.rows

(* C35 as the code has it: the seen ids are compared a page at a time.     *)
(* When a class's task has ended, its spill files hold the rows of every   *)
(* page it was served but the last, whole and in request order; each of    *)
(* these pages brought at least one id that no earlier page had, and the   *)
(* last page, which is not spilled, brought none.  An id that was seen     *)
(* before is spilled again when its page also holds a new id.              *)
C35_SpilledByWholePages ==
    \A c \in DOMAIN task :
        (task[c].pc \in {"finish", "done"} /\ file_idx = 0) =>
            LET history == served[c]
                last == Len(history)
                Seen(k) == EntityIds(ServedRows(history, k))
            IN /\ last >= 1
               /\ SpilledRows(temp_file.dir, c) = ServedRows(history, last - 1)
               /\ \A k \in 1..(last - 1) : ~(Seen(k) \subseteq Seen(k - 1))
               /\ Seen(last) \subseteq Seen(last - 1)

\* a page that repeats a seen id next to a new one has been spilled whole
C35_Witness ==
    /\ 1 \in DOMAIN task
    /\ task[1].pc = "done"
    /\ file_idx = 0
    /\ SpilledRows(temp_file.dir, 1) = <<R1, R1, R2>>

----------------------------------------------------------------------------
(* C36: in file mode every record of the spill files yields exactly one    *)
(* node and that node is in exactly one emitted data document.  At every   *)
(* point of the emit loop the nodes of the data documents written so far,  *)
(* followed by the node array, are the records of the spill files read so  *)
(* far, one node each and in order; after the final flush the data         *)
(* documents alone hold them all.                                          *)

RECURSIVE RecordsOf(_, _)
\* one node for each record of the first k listed spill files
RecordsOf(listing, k) ==
    IF k = 0 THEN <<>>
    ELSE RecordsOf(listing, k - 1)
         \o [i \in DOMAIN listing[k].data |->
                [class |-> listing[k].class, run |-> listing[k].data[i]]]

RECURSIVE EmittedNodes(_)
\* the nodes of the data documents, in the order the documents were written
EmittedNodes(docs) ==
    IF docs = <<>> THEN <<>>
    ELSE (IF Head(docs).name.kind = "data" THEN Head(docs).nodes ELSE <<>>)
         \o EmittedNodes(Tail(docs))

C36_NodesConserved ==
    /\ main_pc \in {"transform", "final"} =>
          EmittedNodes(written) \o insert = RecordsOf(files, file_idx)
    /\ main_pc = "done" =>
          EmittedNodes(written) = RecordsOf(files, Len(files))

\* a run ended with two data documents that both hold nodes
C36_Witness ==
    /\ main_pc = "done"
    /\ Len(written) = 3
    /\ written[2].nodes # <<>>
    /\ written[3].nodes # <<>>

----------------------------------------------------------------------------
(* C37: for every raw class name of the schema, the class name taken from  *)
(* a spill file's name (the text after the last "__") is the class name    *)
(* the file was written for, so the lookup of that name in parser.classes  *)
(* never fails for a file the extractor wrote in the same run.             *)
C37_ClassNameRecovered ==
    transform_pc # "idle"
    => /\ file_class = spill_class
       /\ file_class \in DOMAIN parser.classes

----------------------------------------------------------------------------
\* the record holds an array of integers under a key of its class's shape
\* whose datatype is xsd:dateTime
HoldsInstants(k) ==
    /\ k \in DOMAIN raw_result.members
    /\ k \in DOMAIN parser.properties
    /\ raw_result.members[k].kind = "array"
    /\ \A i \in DOMAIN raw_result.members[k].items :
          raw_result.members[k].items[i].kind = "number"
    /\ file_class \in DOMAIN parser.classes
    /\ parser.classes[file_class].id \in DOMAIN parser.shacl_shapes
    /\ \E c \in Range(parser.shacl_shapes[parser.classes[file_class].id].property) :
          /\ c.path = parser.properties[k].id
          /\ c.datatype = <<"xsd:dateTime">>

(* C39: for a multi-valued property whose shape datatype is xsd:dateTime,  *)
(* transforming a record whose value is an array of epoch-millisecond      *)
(* integers converts every element to its RFC3339 string and does not      *)
(* abort the run.                                                          *)
C39_InstantArrayConverted ==
    \A k \in RawKeys :
        (transform_pc # "idle" /\ HoldsInstants(k))
        => /\ transform_pc = "transformed"
           /\ parsed_result[parser.properties[k].id] =
                 Array([i \in DOMAIN raw_result.members[k].items |->
                          String(InstantToIsoString(
                                     raw_result.members[k].items[i]))])

----------------------------------------------------------------------------
(* C40: the records spilled for a class and the point at which its         *)
(* pagination stops are the same under every interleaving of the class     *)
(* tasks.  Under every interleaving, and whatever the other classes were   *)
(* answered, the state of a class's pagination is a function of the        *)
(* answers the class itself received: its seen ids are the ids of its own  *)
(* pages, its spill files followed by its buffer are the rows of its own   *)
(* pages in request order, its offset counts its own pages, and it has     *)
(* stopped exactly when its own last page brought no id its earlier pages  *)
(* had not.  With a fixed answer to each (class, offset) query the answers *)
(* a class receives are themselves fixed, so the spilled sequence and the  *)
(* stop point are.                                                         *)
C40_ClassStateFromOwnHistory ==
    file_idx = 0 =>
        \A c \in DOMAIN task :
            LET t == task[c]
                history == served[c]
                n == Len(history)
                answered == IF t.pc = "panicked" THEN n - 1 ELSE n
                kept == IF t.pc \in {"finish", "done"} THEN n - 1 ELSE answered
                Seen(k) == EntityIds(ServedRows(history, k))
            IN /\ SpilledRows(temp_file.dir, c) \o t.results
                     = ServedRows(history, kept)
               /\ t.offset = PageSize * kept
               /\ IF answered = 0 THEN c \notin DOMAIN entity_map
                  ELSE c \in DOMAIN entity_map /\ entity_map[c] = Seen(answered)
               /\ \A k \in 1..kept : ~(Seen(k) \subseteq Seen(k - 1))
               /\ t.pc \in {"finish", "done"} =>
                     n >= 1 /\ Seen(n) \subseteq Seen(n - 1)

\* two classes were served the same ids and stopped at different points
C40_Witness ==
    /\ DOMAIN task = {1, 2}
    /\ task[1].pc = "done"
    /\ task[2].pc = "done"
    /\ file_idx = 0
    /\ SpilledRows(temp_file.dir, 1) = <<R1>>
    /\ SpilledRows(temp_file.dir, 2) = <<R1, R1, R2>>
    /\ temp_file.dir[1].class = 2

============================================================================
